---- MODULE Spec2Model ----
(***************************************************************************)
(* A model of readgedcom.py (johnandrea/readgedcom, v1.21.0): the GEDCOM   *)
(* reader, the record parsers, the cross-reference validator, the best     *)
(* event selection, the privatize flag and the writers.                    *)
(*                                                                         *)
(* The module holds one specification per component.  Every specification  *)
(* drives the same variables; the ones a component does not touch keep     *)
(* their initial value.                                                    *)
(***************************************************************************)
EXTENDS Integers, Sequences, FiniteSets, TLC

VARIABLES
    pc,            \* position of the calling program
    run_settings,  \* module global run_settings (the options in use)
    version,       \* module global version (detected GEDCOM version)
    all_messages,  \* module global all_messages (the message sink)
    individuals,   \* data[PARSED_INDI]
    families,      \* data[PARSED_FAM]
    sections,      \* data[sect] for the file sections, with the input read
    outf,          \* the lines written by a writer
    trace          \* what the last operation did (removed references, ...)

vars == <<pc, run_settings, version, all_messages, individuals, families,
          sections, outf, trace>>

----------------------------------------------------------------------------
(* Generic helpers                                                          *)

Range(s) == { s[k] : k \in 1..Len(s) }

\* list.remove( x ): drops the first occurrence of x
RemoveFirst(s, x) ==
    LET k == CHOOSE k \in 1..Len(s) :
                 s[k] = x /\ \A j \in 1..(k-1) : s[j] # x
    IN  SubSeq(s, 1, k-1) \o SubSeq(s, k+1, Len(s))

\* the lists list( set( s ) ) can return: the distinct members in any order
ListOfSet(s) ==
    LET S == Range(s)
        n == Cardinality(S)
    IN  { t \in [1..n -> S] : \A a, b \in 1..n : a # b => t[a] # t[b] }

SeqsUpTo(S, n) == UNION { [1..k -> S] : k \in 0..n }

----------------------------------------------------------------------------
(* Settings                                                                 *)

\* setup_settings: the defaults
DefaultSettings ==
    [ exit_on_missing_individuals |-> FALSE,
      exit_on_missing_families    |-> FALSE,
      exit_on_unknown_section     |-> FALSE,
      exit_on_no_individuals      |-> TRUE,
      exit_on_no_families         |-> FALSE,
      only_birth                  |-> FALSE,
      exit_on_bad_date            |-> FALSE ]

----------------------------------------------------------------------------
(* The cross-reference validator, on the family links of the records        *)

\* Bound: level-1 reference lines given to one record of the input
MaxRefs == 2

\* xrefs used by the input: i1 and f1 are records of the file, the others
\* are named by reference lines only
IndiRecords == {"i1"}
FamRecords  == {"f1"}
IndiXrefs   == {"i1", "i8", "i9"}
FamXrefs    == {"f1", "f8", "f9"}

\* dict order of data[PARSED_INDI] and data[PARSED_FAM]: the file order
IndiOrder == <<"i1">>
FamOrder  == <<"f1">>

\* parse_individual, the fams and famc lines: the xref is appended to the
\* list of its tag, and a list of more than one item goes through
\* list( set( ... ) ).  lines is the record's level-1 lines <<tag, xref>>.
TagList(lines, tag) ==
    LET F[k \in 0..Len(lines)] ==
          IF k = 0 THEN <<>>
          ELSE IF lines[k][1] = tag THEN Append(F[k-1], lines[k][2])
               ELSE F[k-1]
    IN  F[Len(lines)]

TagKeys(lines) == { lines[k][1] : k \in 1..Len(lines) }

\* the parsed individuals parse_individual can build from the lines
parse_individual(lines) ==
    LET fams == TagList(lines, "fams")
        famc == TagList(lines, "famc")
        Dedup(l) == IF Len(l) > 1 THEN ListOfSet(l) ELSE {l}
    IN  { [ keys |-> TagKeys(lines), fams |-> a, famc |-> b ] :
            a \in Dedup(fams), b \in Dedup(famc) }

\* parse_family: chil always exists, husb and wife only when a line has them
parse_family(lines) ==
    [ keys |-> TagKeys(lines) \cup {"chil"},
      husb |-> TagList(lines, "husb"),
      wife |-> TagList(lines, "wife"),
      chil |-> TagList(lines, "chil") ]

\* ensure_not_twice( ONCE_FAM_TAGS, ... ): TRUE when it raises
ensure_not_twice(fam) == Len(fam.husb) > 1 \/ Len(fam.wife) > 1

\* One "for x in lst: if x dangling: lst.remove( x ); ..." loop of
\* check_parsed_sections.  The iterator keeps a position i into the list
\* that remove() shortens under it.  exit_flag: the option that makes the
\* loop raise after the removal.  Result: the list left, the warnings
\* recorded, and whether it raised.
RECURSIVE PruneLoop(_, _, _, _, _, _)
PruneLoop(lst, i, ok, exit_flag, warned, skip_empty) ==
    IF i >= Len(lst)
    THEN [ list |-> lst, warned |-> warned, raised |-> FALSE ]
    ELSE LET x == lst[i+1] IN
         IF (skip_empty => x # "") /\ x \notin ok
         THEN IF exit_flag
              THEN [ list |-> RemoveFirst(lst, x), warned |-> warned,
                     raised |-> TRUE ]
              ELSE PruneLoop(RemoveFirst(lst, x), i+1, ok, exit_flag,
                             Append(warned, x), skip_empty)
         ELSE PruneLoop(lst, i+1, ok, exit_flag, warned, skip_empty)

\* The loops in the order check_parsed_sections runs them: the fams and famc
\* of every individual, then husb, wife and chil of every family.  Each
\* entry is <<section, record, list, option that raises>>.
XrefLoopsOf(indi_order, fam_order) ==
    LET I[k \in 0..Len(indi_order)] ==
          IF k = 0 THEN <<>>
          ELSE I[k-1] \o << <<"indi", indi_order[k], "fams", "families">>,
                            <<"indi", indi_order[k], "famc", "families">> >>
        F[k \in 0..Len(fam_order)] ==
          IF k = 0 THEN <<>>
          ELSE F[k-1] \o << <<"fam", fam_order[k], "husb", "individuals">>,
                            <<"fam", fam_order[k], "wife", "individuals">>,
                            <<"fam", fam_order[k], "chil", "families">> >>
    IN  I[Len(indi_order)] \o F[Len(fam_order)]

XrefLoops == XrefLoopsOf(IndiOrder, FamOrder)

ExitFlag(settings, which) ==
    IF which = "individuals" THEN settings.exit_on_missing_individuals
    ELSE settings.exit_on_missing_families

\* check_parsed_sections( data ): the document after the check, the
\* warnings it gave to print_warn, and whether it raised ValueError
check_parsed_sections_in(indis, fams, settings, loops) ==
    LET step(st, loop) ==
          IF st.raised THEN st
          ELSE LET isIndi == loop[1] = "indi"
                   rec    == IF isIndi THEN st.individuals[loop[2]]
                             ELSE st.families[loop[2]]
               IN  IF loop[3] \notin rec.keys THEN st
                   ELSE LET r == PruneLoop(rec[loop[3]], 0,
                                    IF isIndi THEN DOMAIN st.families
                                    ELSE DOMAIN st.individuals,
                                    ExitFlag(settings, loop[4]), <<>>,
                                    loop[3] \in {"husb", "wife"})
                            msgs == [ k \in 1..Len(r.warned) |->
                                       <<loop[1], loop[2], loop[3], r.warned[k]>> ]
                            rec2 == [ rec EXCEPT ![loop[3]] = r.list ]
                        IN  [ individuals |->
                                IF isIndi
                                THEN [ st.individuals EXCEPT ![loop[2]] = rec2 ]
                                ELSE st.individuals,
                              families |->
                                IF isIndi THEN st.families
                                ELSE [ st.families EXCEPT ![loop[2]] = rec2 ],
                              messages |-> st.messages \o msgs,
                              raised |-> r.raised ]
        S[k \in 0..Len(loops)] ==
          IF k = 0
          THEN [ individuals |-> indis, families |-> fams,
                 messages |-> <<>>, raised |-> FALSE ]
          ELSE step(S[k-1], loops[k])
    IN  S[Len(loops)]

\* on the documents of one individual record and one family record
check_parsed_sections(indis, fams, settings) ==
    check_parsed_sections_in(indis, fams, settings, XrefLoops)

\* the number of references held by the lists of a document
RefCount(indis, fams) ==
    LET SumI[k \in 0..Len(IndiOrder)] ==
          IF k = 0 THEN 0
          ELSE SumI[k-1] + Len(indis[IndiOrder[k]].fams)
                         + Len(indis[IndiOrder[k]].famc)
        SumF[k \in 0..Len(FamOrder)] ==
          IF k = 0 THEN 0
          ELSE SumF[k-1] + Len(fams[FamOrder[k]].husb)
                         + Len(fams[FamOrder[k]].wife)
                         + Len(fams[FamOrder[k]].chil)
    IN  SumI[Len(IndiOrder)] + SumF[Len(FamOrder)]

NoDocument == [ r \in {} |-> 0 ]
NoTrace    == [ op |-> "none" ]

\* read_file on an input whose individual and family records hold the given
\* reference lines: setup_parsed_sections, then check_parsed_sections.
\* (setup_birth_families leaves fams, famc, husb, wife and chil as they are
\* when only-birth is off.)
XrefReadFile ==
    /\ pc = "start"
    /\ \E ilines \in SeqsUpTo({"fams", "famc"} \X FamXrefs, MaxRefs),
          flines \in SeqsUpTo({"husb", "wife", "chil"} \X IndiXrefs, MaxRefs),
          emi \in BOOLEAN, emf \in BOOLEAN :
         \E indi \in parse_individual(ilines) :
           LET settings == [ DefaultSettings EXCEPT
                               !.exit_on_missing_individuals = emi,
                               !.exit_on_missing_families = emf ]
               fam   == parse_family(flines)
               indis == [ i \in IndiRecords |-> indi ]
               fams  == [ f \in FamRecords |-> fam ]
               res   == check_parsed_sections(indis, fams, settings)
           IN  /\ run_settings' = settings
               /\ IF ensure_not_twice(fam)
                  THEN /\ pc' = "raised"
                       /\ UNCHANGED <<all_messages, individuals, families>>
                       /\ trace' = [ op |-> "read_file" ]
                  ELSE /\ all_messages' = all_messages \o res.messages
                       /\ trace' = [ op |-> "read_file", ilines |-> ilines,
                                     flines |-> flines ]
                       /\ IF res.raised
                          THEN /\ pc' = "raised"
                               /\ UNCHANGED <<individuals, families>>
                          ELSE /\ pc' = "returned"
                               /\ individuals' = res.individuals
                               /\ families' = res.families
    /\ UNCHANGED <<version, sections, outf>>

\* a second check_parsed_sections( data ) on the document read_file returned
XrefCheckAgain ==
    /\ pc = "returned"
    /\ LET res == check_parsed_sections(individuals, families, run_settings)
       IN  /\ pc' = IF res.raised THEN "raised again" ELSE "checked again"
           /\ individuals' = res.individuals
           /\ families' = res.families
           /\ all_messages' = all_messages \o res.messages
           /\ trace' = [ op |-> "check_parsed_sections",
                         removed |-> RefCount(individuals, families)
                                     - RefCount(res.individuals, res.families),
                         warnings |-> Len(res.messages) ]
    /\ UNCHANGED <<run_settings, version, sections, outf>>

\* the module globals as the import leaves them; no document yet
XrefInit ==
    /\ pc = "start"
    /\ run_settings = DefaultSettings
    /\ version = ""
    /\ all_messages = <<>>
    /\ individuals = NoDocument
    /\ families = NoDocument
    /\ sections = NoDocument
    /\ outf = <<>>
    /\ trace = NoTrace

XrefNext == XrefReadFile \/ XrefCheckAgain

SpecXref == XrefInit /\ [][XrefNext]_vars

----------------------------------------------------------------------------
(* The hierarchical reader: read_in_data, confirm_gedcom_version, read_file *)
(* and output_original                                                      *)

\* SECTION_NAMES, in the order output_original writes them
SECT_HEAD == "head"
SECT_INDI == "indi"
SECT_FAM  == "fam"
SECT_TRLR == "trlr"
SECTION_NAMES ==
    << SECT_HEAD, "subm", SECT_INDI, SECT_FAM, "obje", "repo", "snote",
       "sour", "_evdef", "_todo", "_plac_defn", "_event_defn", SECT_TRLR >>
NON_STD_SECTIONS == {"_evdef", "_todo", "_plac_defn", "_event_defn"}

\* An input line is its text after strip() (txt), whether the raw line had
\* tabs or surrounding blanks that read_in_data removes (pad), its level
\* number, its second token lowercased (tag) and the rest (value).
\* level 9 stands for a text that starts with none of "0 " .. "5 ";
\* txt "" is a blank line.
Ln(txt, level, tag, value) ==
    [ txt |-> txt, pad |-> FALSE, level |-> level, tag |-> tag,
      value |-> value ]
Padded(line) == [ line EXCEPT !.pad = TRUE ]
BlankLine == [ Ln("", 9, "", "") EXCEPT !.pad = TRUE ]

\* line.replace( '\t', ' ' ).strip()
StripLine(line) == [ line EXCEPT !.pad = FALSE ]

\* line_values: in, tag, value and an empty sub list
line_values(line) ==
    [ in |-> line, tag |-> line.tag, value |-> line.value, sub |-> <<>> ]

\* SUPPORTED_VERSIONS: '5.5.1', '5.5.5' and everything starting with '7.0.'
StartsWith70 == {"7.0.", "7.0.1", "7.0.3", "7.0.14"}
VersionSupported(v) == v \in {"5.5.1", "5.5.5"} \cup StartsWith70

\* the section a level-0 line opens (the if/elif chain of read_in_data)
IndiXrefTags == {"@i1@", "@i2@", "@i3@"}
FamXrefTags  == {"@f1@", "@f2@"}
SectionOf(line) ==
    IF line.tag = "head" THEN SECT_HEAD
    ELSE IF line.tag \in IndiXrefTags /\ line.value = "INDI" THEN SECT_INDI
    ELSE IF line.tag \in FamXrefTags /\ line.value = "FAM" THEN SECT_FAM
    ELSE IF line.tag = "trlr" THEN SECT_TRLR
    ELSE IF line.value = "OBJE" THEN "obje"
    ELSE IF line.value = "REPO" THEN "repo"
    ELSE IF line.value = "SOUR" THEN "sour"
    ELSE IF line.value = "SUBM" THEN "subm"
    ELSE IF line.value = "SNOTE" THEN "snote"
    ELSE line.txt        \* the line itself names an unlisted section

\* no node selected at a level (Python None); list positions count from 1
None == 0

\* confirm_gedcom_version: the version of the first header record, or why
\* it raises
confirm_gedcom_version(data) ==
    IF data[SECT_HEAD] = <<>> THEN [ raised |-> TRUE, version |-> "" ]
    ELSE LET subs == data[SECT_HEAD][1].sub
             V[k \in 0..Len(subs)] ==
               IF k = 0 THEN ""
               ELSE IF subs[k].tag = "gedc"
                       /\ \E j \in 1..Len(subs[k].sub) :
                              subs[k].sub[j].tag = "vers"
                    THEN LET j == CHOOSE j \in 1..Len(subs[k].sub) :
                                     /\ subs[k].sub[j].tag = "vers"
                                     /\ \A h \in 1..(j-1) :
                                           subs[k].sub[h].tag # "vers"
                         IN  subs[k].sub[j].value
                    ELSE V[k-1]
             v == V[Len(subs)]
         IN  IF v # "" /\ VersionSupported(v)
             THEN [ raised |-> FALSE, version |-> v ]
             ELSE [ raised |-> TRUE, version |-> "" ]

\* the state of read_in_data before the first line; st.version and
\* st.messages are the module globals it reads and writes
ReaderStart(ver, msgs, settings) ==
    [ data |-> [ s \in Range(SECTION_NAMES) |-> <<>> ],
      unknown |-> <<>>,         \* the other keys of data, in dict order
      sect |-> "?", zero |-> None, one |-> None, two |-> None,
      three |-> None, four |-> None,
      final_section |-> "?", ignore_line |-> FALSE, lines_found |-> {},
      version |-> ver, messages |-> msgs, settings |-> settings,
      status |-> "ok" ]         \* ok, ValueError, or crash (TypeError, KeyError)

\* a level-0 line stored whether or not it was seen before
ReadLevel0AnyNumberOfTimes(st, line) ==
    IF SectionOf(line) \notin DOMAIN st.data
    THEN [ st EXCEPT !.status = "ValueError", !.sect = SectionOf(line) ]
    ELSE [ st EXCEPT !.sect = SectionOf(line), !.ignore_line = FALSE,
                     !.final_section = SectionOf(line),
                     !.version = IF SectionOf(line) # SECT_HEAD /\ @ = ""
                                 THEN confirm_gedcom_version(st.data).version
                                 ELSE @,
                     !.data[SectionOf(line)] = Append(@, line_values(line)),
                     !.zero = Len(st.data[SectionOf(line)]) + 1,
                     !.one = None ]

\* one level-0 line
ReadLevel0(st, line) ==
    LET sect  == SectionOf(line)
        dup   == sect \in {SECT_INDI, SECT_FAM} /\ line.txt \in st.lines_found
        isUnk == sect \notin Range(SECTION_NAMES)
        warnUnk == isUnk /\ line.tag \notin NON_STD_SECTIONS
        msgs1 == IF dup THEN Append(st.messages, <<"duplicate", line.txt>>)
                 ELSE IF warnUnk
                      THEN Append(st.messages, <<"unknown section", line.txt>>)
                      ELSE st.messages
        data1 == IF isUnk /\ sect \notin DOMAIN st.data
                 THEN st.data @@ (sect :> <<>>) ELSE st.data
        unk1  == IF isUnk /\ sect \notin DOMAIN st.data
                 THEN Append(st.unknown, sect) ELSE st.unknown
        conf  == confirm_gedcom_version(data1)
        check == sect # SECT_HEAD /\ st.version = ""
        st1   == [ st EXCEPT !.sect = sect, !.ignore_line = dup,
                             !.messages = msgs1, !.data = data1,
                             !.unknown = unk1,
                             !.lines_found =
                                IF sect \in {SECT_INDI, SECT_FAM}
                                THEN @ \cup {line.txt} ELSE @ ]
    IN  IF warnUnk /\ st.settings.exit_on_unknown_section
        THEN [ st EXCEPT !.status = "ValueError", !.sect = sect ]
        ELSE IF check /\ conf.raised
        THEN [ st1 EXCEPT !.status = "ValueError" ]
        ELSE LET st2 == IF check THEN [ st1 EXCEPT !.version = conf.version ]
                        ELSE st1
                 st3 == IF dup THEN st2
                        ELSE [ st2 EXCEPT
                                 !.data[sect] = Append(@, line_values(line)),
                                 !.zero = Len(st2.data[sect]) + 1,
                                 !.one = None ]
             IN  [ st3 EXCEPT !.final_section = sect ]

\* every line of level 1 to 5 filed right under the record
ReadSubLevelFlat(st, line) ==
    IF st.ignore_line THEN st
    ELSE IF st.zero = None THEN [ st EXCEPT !.status = "crash" ]
    ELSE [ st EXCEPT !.data[st.sect][st.zero].sub =
                        Append(@, line_values(line)) ]

\* one line of level 1 to 5
ReadSubLevel(st, line) ==
    LET node == line_values(line)
        s == st.sect
        z == st.zero
    IN  IF st.ignore_line THEN st
        ELSE IF line.level = 1 THEN
             IF z = None THEN [ st EXCEPT !.status = "crash" ]
             ELSE [ st EXCEPT !.data[s][z].sub = Append(@, node),
                              !.one = Len(st.data[s][z].sub) + 1,
                              !.two = None ]
        ELSE IF line.level = 2 THEN
             IF z = None \/ st.one = None THEN [ st EXCEPT !.status = "crash" ]
             ELSE [ st EXCEPT
                      !.data[s][z].sub[st.one].sub = Append(@, node),
                      !.two = Len(st.data[s][z].sub[st.one].sub) + 1,
                      !.three = None ]
        ELSE IF line.level = 3 THEN
             IF z = None \/ st.one = None \/ st.two = None
             THEN [ st EXCEPT !.status = "crash" ]
             ELSE [ st EXCEPT
                      !.data[s][z].sub[st.one].sub[st.two].sub = Append(@, node),
                      !.three =
                         Len(st.data[s][z].sub[st.one].sub[st.two].sub) + 1,
                      !.four = None ]
        ELSE IF line.level = 4 THEN
             IF z = None \/ st.one = None \/ st.two = None \/ st.three = None
             THEN [ st EXCEPT !.status = "crash" ]
             ELSE [ st EXCEPT
                      !.data[s][z].sub[st.one].sub[st.two].sub[st.three].sub =
                         Append(@, node),
                      !.four =
                         Len(st.data[s][z].sub[st.one].sub[st.two]
                                .sub[st.three].sub) + 1 ]
        ELSE
             IF z = None \/ st.one = None \/ st.two = None \/ st.three = None
                \/ st.four = None
             THEN [ st EXCEPT !.status = "crash" ]
             ELSE [ st EXCEPT
                      !.data[s][z].sub[st.one].sub[st.two].sub[st.three]
                        .sub[st.four].sub = Append(@, node) ]

\* the body of "for line in inf": strip, skip a blank line, dispatch on the
\* level, warn about any other text
ReadLine(st, raw) ==
    LET line == StripLine(raw) IN
    IF st.status # "ok" \/ line.txt = "" THEN st
    ELSE IF line.level = 0 THEN ReadLevel0(st, line)
    ELSE IF line.level \in 1..5 THEN ReadSubLevel(st, line)
    ELSE [ st EXCEPT !.messages =
                        Append(@, <<"level not handled", line.txt>>) ]

\* read_in_data: every line in turn, then the test of the final section
read_in_data(inf, ver, msgs, settings) ==
    LET S[k \in 0..Len(inf)] ==
          IF k = 0 THEN ReaderStart(ver, msgs, settings)
          ELSE ReadLine(S[k-1], inf[k])
        end == S[Len(inf)]
    IN  IF end.status = "ok" /\ end.final_section # SECT_TRLR
        THEN [ end EXCEPT !.status = "ValueError" ]
        ELSE end

\* read_file after read_in_data: header and trailer once and only once,
\* individuals and families present (or a warning)
read_file_checks(st) ==
    IF st.status # "ok" THEN st
    ELSE IF Len(st.data[SECT_HEAD]) # 1 \/ Len(st.data[SECT_TRLR]) # 1
    THEN [ st EXCEPT !.status = "ValueError" ]
    ELSE IF Len(st.data[SECT_INDI]) < 1 /\ st.settings.exit_on_no_individuals
    THEN [ st EXCEPT !.status = "ValueError" ]
    ELSE LET m1 == IF Len(st.data[SECT_INDI]) < 1
                   THEN Append(st.messages, <<"no individuals", "">>)
                   ELSE st.messages
         IN  IF Len(st.data[SECT_FAM]) < 1 /\ st.settings.exit_on_no_families
             THEN [ st EXCEPT !.status = "ValueError", !.messages = m1 ]
             ELSE [ st EXCEPT !.messages =
                       IF Len(st.data[SECT_FAM]) < 1
                       THEN Append(m1, <<"no families", "">>) ELSE m1 ]

\* output_sub_section: a node's line, then its sub-sections in order
RECURSIVE output_sub_section(_)
RECURSIVE output_section(_)
output_sub_section(node) == <<node.in>> \o output_section(node.sub)

\* output_section: every record of a list in order
output_section(section) ==
    IF section = <<>> THEN <<>>
    ELSE output_sub_section(Head(section)) \o output_section(Tail(section))

\* output_original with the trailer written at its place in SECTION_NAMES,
\* before the other sections
output_original_trailer_in_place(data, unknown) ==
    LET K[k \in 0..Len(SECTION_NAMES)] ==
          IF k = 0 THEN <<>>
          ELSE K[k-1] \o output_section(data[SECTION_NAMES[k]])
        U[k \in 0..Len(unknown)] ==
          IF k = 0 THEN <<>>
          ELSE U[k-1] \o output_section(data[unknown[k]])
    IN  K[Len(SECTION_NAMES)] \o U[Len(unknown)]

\* output_original: the listed sections in the order of SECTION_NAMES
\* without the trailer, then the other sections in dict order, then the
\* trailer.  (The lead sequence goes to standard output, not to the file.)
output_original(data, unknown) ==
    LET K[k \in 0..Len(SECTION_NAMES)] ==
          IF k = 0 THEN <<>>
          ELSE IF SECTION_NAMES[k] # SECT_TRLR
               THEN K[k-1] \o output_section(data[SECTION_NAMES[k]])
               ELSE K[k-1]
        U[k \in 0..Len(unknown)] ==
          IF k = 0 THEN <<>>
          ELSE U[k-1] \o output_section(data[unknown[k]])
    IN  K[Len(SECTION_NAMES)] \o U[Len(unknown)]
        \o output_section(data[SECT_TRLR])

----------------------------------------------------------------------------
(* The reader and the original writer on whole input files                  *)

\* Bound: records (or stray lines) of an input file
MaxRecords == 4

\* The records an input file is put together from
HeadRecord ==
    << Ln("0 HEAD", 0, "head", ""), Ln("1 GEDC", 1, "gedc", ""),
       Ln("2 VERS 5.5.1", 2, "vers", "5.5.1") >>
IndiRecord1 == << Ln("0 @I1@ INDI", 0, "@i1@", "INDI"),
                  Ln("1 NAME a", 1, "name", "a") >>
\* the same opening line with other lines under it
IndiRecord1b == << Ln("0 @I1@ INDI", 0, "@i1@", "INDI"),
                   Ln("1 NAME b", 1, "name", "b") >>
\* lines down to level 5, one of them indented in the file
IndiRecord2 ==
    << Ln("0 @I2@ INDI", 0, "@i2@", "INDI"),
       Padded(Ln("1 BIRT", 1, "birt", "")),
       Ln("2 SOUR @S1@", 2, "sour", "@S1@"), Ln("3 DATA", 3, "data", ""),
       Ln("4 TEXT t", 4, "text", "t"), Ln("5 CONC u", 5, "conc", "u"),
       Ln("1 SEX F", 1, "sex", "F") >>
\* a family record with a blank line in it
FamRecord1 == << Ln("0 @F1@ FAM", 0, "@f1@", "FAM"),
                 Ln("1 MARR", 1, "marr", ""), BlankLine,
                 Ln("2 DATE 1900", 2, "date", "1900") >>
\* a submitter record followed by a line of a level read_in_data does not
\* handle
SubmRecord == << Ln("0 @U1@ SUBM", 0, "@u1@", "SUBM"),
                 Ln("6 ODD", 9, "odd", "") >>
UnlistedRecord == << Ln("0 @X1@ XYZ", 0, "@x1@", "XYZ"),
                     Ln("1 NOTE n", 1, "note", "n") >>
TrailerRecord == << Ln("0 TRLR", 0, "trlr", "") >>
\* a level-2 line that may follow any record
StrayLevel2 == << Ln("2 PLAC p", 2, "plac", "p") >>

InputRecords ==
    { HeadRecord, IndiRecord1, IndiRecord1b, IndiRecord2, FamRecord1,
      SubmRecord, UnlistedRecord, TrailerRecord, StrayLevel2 }

RECURSIVE Flatten(_)
Flatten(ss) == IF ss = <<>> THEN <<>> ELSE Head(ss) \o Flatten(Tail(ss))

\* extract_indi_id / extract_fam_id: "@I1@" gives "i1"
extract_id(tag) ==
    CASE tag = "@i1@" -> "i1" [] tag = "@i2@" -> "i2" [] tag = "@i3@" -> "i3"
      [] tag = "@f1@" -> "f1" [] tag = "@f2@" -> "f2" [] OTHER -> tag

\* setup_parsed_sections for records without family links: one parsed entry
\* per stored record
ParsedKeys(section) ==
    [ x \in { extract_id(section[k].tag) : k \in 1..Len(section) } |->
        [ keys |-> {}, fams |-> <<>>, famc |-> <<>> ] ]

\* read_file( datafile ): read_in_data, the header and trailer checks, the
\* parsed sections; the globals version and all_messages keep what the call
\* leaves in them
ReadFileOn(inf, settings) ==
    LET st == read_file_checks(read_in_data(inf, version, all_messages, settings))
    IN  /\ run_settings' = settings
        /\ version' = st.version
        /\ all_messages' = st.messages
        /\ trace' = [ op |-> "read_file", inf |-> inf ]
        /\ outf' = <<>>
        /\ IF st.status = "ok"
           THEN /\ pc' = "returned"
                /\ sections' = [ data |-> st.data, unknown |-> st.unknown ]
                /\ individuals' = ParsedKeys(st.data[SECT_INDI])
                /\ families' = ParsedKeys(st.data[SECT_FAM])
           ELSE /\ pc' = IF st.status = "crash" THEN "crashed" ELSE "raised"
                /\ UNCHANGED <<sections, individuals, families>>

ReaderReadFile ==
    /\ pc = "start"
    /\ \E recs \in SeqsUpTo(InputRecords, MaxRecords) :
          ReadFileOn(Flatten(recs), DefaultSettings)

\* output_original( data, file ) on the document read_file returned
ReaderOutputOriginal ==
    /\ pc = "returned"
    /\ outf' = output_original(sections.data, sections.unknown)
    /\ pc' = "written"
    /\ UNCHANGED <<run_settings, version, all_messages, individuals, families,
                   sections, trace>>

ReaderNext == ReaderReadFile \/ ReaderOutputOriginal

SpecReader == XrefInit /\ [][ReaderNext]_vars

----------------------------------------------------------------------------
(* read_in_data, line by line                                               *)

\* Bound: lines read after the opening lines of an input
MaxBodyLines == 3

\* the opening lines of an input: none, a header, a header and an
\* individual with one level-1 line, or with lines down to level 4
LineStarts ==
    { <<>>, HeadRecord, HeadRecord \o IndiRecord1,
      HeadRecord \o SubSeq(IndiRecord2, 1, 5) }

\* the lines that may follow: one of every level from 1 to 5, a blank line,
\* a line of a level not handled, the opening line of a new individual, the
\* opening line of the first individual once more, and the trailer
BodyLines ==
    { Ln("1 SEX F", 1, "sex", "F"), Ln("2 SOUR @S1@", 2, "sour", "@S1@"),
      Ln("3 DATA", 3, "data", ""), Ln("4 TEXT t", 4, "text", "t"),
      Ln("5 CONC u", 5, "conc", "u"), BlankLine, Ln("6 ODD", 9, "odd", ""),
      Ln("0 @I2@ INDI", 0, "@i2@", "INDI"),
      Ln("0 @I1@ INDI", 0, "@i1@", "INDI"), Ln("0 TRLR", 0, "trlr", "") }

\* read_in_data( inf, data ) is entered: nothing read yet.  trace.inf holds
\* the lines read so far, trace.rest the opening lines still to come.
LinesOpen ==
    /\ pc = "start"
    /\ \E start \in LineStarts :
         trace' = [ op |-> "read_in_data", inf |-> <<>>, rest |-> start,
                    body |-> 0 ]
    /\ sections' = ReaderStart(version, all_messages, DefaultSettings)
    /\ pc' = "reading"
    /\ UNCHANGED <<run_settings, version, all_messages, individuals,
                   families, outf>>

\* one pass of "for line in inf"; a line that raises is kept in trace.failed
LinesRead(line, st, rest, body) ==
    /\ sections' = st
    /\ version' = st.version
    /\ all_messages' = st.messages
    /\ IF st.status = "ok"
       THEN /\ trace' = [ trace EXCEPT !.inf = Append(@, line),
                                       !.rest = rest, !.body = body ]
            /\ pc' = "reading"
       ELSE /\ trace' = [ op |-> "read_in_data", inf |-> trace.inf,
                          failed |-> line ]
            /\ pc' = IF st.status = "crash" THEN "crashed" ELSE "raised"

LinesStep ==
    /\ pc = "reading"
    /\ IF trace.rest # <<>>
       THEN LinesRead(Head(trace.rest), ReadLine(sections, Head(trace.rest)),
                      Tail(trace.rest), trace.body)
       ELSE /\ trace.body < MaxBodyLines
            /\ \E line \in BodyLines :
                 LinesRead(line, ReadLine(sections, line), <<>>,
                           trace.body + 1)
    /\ UNCHANGED <<run_settings, individuals, families, outf>>

\* the end of the input: the test of the final section
LinesEnd ==
    /\ pc = "reading"
    /\ trace.rest = <<>>
    /\ pc' = IF sections.final_section # SECT_TRLR THEN "raised" ELSE "read"
    /\ trace' = [ op |-> "read_in_data", inf |-> trace.inf ]
    /\ UNCHANGED <<run_settings, version, all_messages, individuals,
                   families, sections, outf>>

LinesNext == LinesOpen \/ LinesStep \/ LinesEnd

SpecLines == XrefInit /\ [][LinesNext]_vars

----------------------------------------------------------------------------
(* Several read_file calls in one process (as check-adoptions.py makes):    *)
(* the globals version and all_messages live on from call to call           *)

\* Bounds: the read_file calls of the process, the records of each input
MaxCalls == 2
MaxCallRecords == 3

\* header records with other version lines
HeadRecord703 ==
    << Ln("0 HEAD", 0, "head", ""), Ln("1 GEDC", 1, "gedc", ""),
       Ln("2 VERS 7.0.3", 2, "vers", "7.0.3") >>
HeadRecord40 ==
    << Ln("0 HEAD", 0, "head", ""), Ln("1 GEDC", 1, "gedc", ""),
       Ln("2 VERS 4.0", 2, "vers", "4.0") >>
HeadRecordNoVersion ==
    << Ln("0 HEAD", 0, "head", ""), Ln("1 CHAR UTF-8", 1, "char", "UTF-8") >>

CallRecords ==
    { HeadRecord, HeadRecord703, HeadRecord40, HeadRecordNoVersion,
      IndiRecord1, UnlistedRecord, TrailerRecord }

\* the number of read_file calls made so far
Calls == IF trace.op = "none" THEN 0 ELSE trace.call

\* the documents the calls made so far have returned: for each the number of
\* its call, the warnings print_warn appended during that call and the
\* message list of the document as it was when the call returned
Documents == IF trace.op = "none" THEN <<>> ELSE trace.documents

\* data[PARSED_MESSAGES] = all_messages binds the message list of the
\* document to the list object of the module, which no statement replaces or
\* empties: the message list of every document returned is that object
DocumentMessages(doc) == all_messages

\* what the input says by itself: whether a level-0 line other than a header
\* occurs, and the version the first header record before it declares
\* ("" when there is none)
ReachesNonHeader(inf) ==
    \E k \in 1..Len(inf) : inf[k].level = 0 /\ inf[k].tag # "head"
DeclaredVersion(inf) ==
    LET r == CHOOSE k \in 1..Len(inf) :
                /\ inf[k].level = 0 /\ inf[k].tag # "head"
                /\ \A h \in 1..(k-1) : ~(inf[h].level = 0 /\ inf[h].tag # "head")
        inFirstHead(k) ==
            /\ k < r
            /\ \E h \in 1..k : inf[h].level = 0
            /\ \A h \in 2..k : inf[h].level # 0
    IN  IF \E k \in 1..Len(inf) : inFirstHead(k) /\ inf[k].tag = "vers"
        THEN inf[CHOOSE k \in 1..Len(inf) :
                    inFirstHead(k) /\ inf[k].tag = "vers"].value
        ELSE ""

\* one more read_file call of the same process
CallsReadFile ==
    /\ pc \in {"start", "returned", "raised"}
    /\ Calls < MaxCalls
    /\ \E recs \in SeqsUpTo(CallRecords, MaxCallRecords) :
         LET inf == Flatten(recs)
             st == read_file_checks(
                      read_in_data(inf, version, all_messages, DefaultSettings))
         IN  /\ run_settings' = DefaultSettings
             /\ version' = st.version
             /\ all_messages' = st.messages
             /\ trace' = [ op |-> "read_file", call |-> Calls + 1,
                           reached |-> ReachesNonHeader(inf),
                           declared |-> IF ReachesNonHeader(inf)
                                        THEN DeclaredVersion(inf) ELSE "",
                           documents |->
                             IF st.status = "ok"
                             THEN Append(Documents,
                                    [ call |-> Calls + 1,
                                      emitted |->
                                        SubSeq(st.messages,
                                               Len(all_messages) + 1,
                                               Len(st.messages)),
                                      returned |-> st.messages ])
                             ELSE Documents ]
             /\ outf' = <<>>
             /\ IF st.status = "ok"
                THEN /\ pc' = "returned"
                     /\ sections' = [ data |-> st.data, unknown |-> st.unknown ]
                     /\ individuals' = ParsedKeys(st.data[SECT_INDI])
                     /\ families' = ParsedKeys(st.data[SECT_FAM])
                ELSE /\ pc' = "raised"
                     /\ UNCHANGED <<sections, individuals, families>>

CallsNext == CallsReadFile

SpecCalls == XrefInit /\ [][CallsNext]_vars

----------------------------------------------------------------------------
(* Best event selection: set_best_events                                    *)

\* Bound: candidate records of one tag
MaxCandidates == 3

INDI_SINGLE_EVENTS == <<"name", "sex", "birt", "deat">>
FAM_SINGLE_EVENTS  == <<"marr", "div", "anul">>

\* EVENT_PROOF_VALUES: {'disproven':0, 'other':1, 'proven':2}
ProofTexts == {"disproven", "other", "proven"}
EVENT_PROOF_VALUES(p) ==
    CASE p = "disproven" -> 0 [] p = "other" -> 1 [] p = "proven" -> 2

\* str.lower() on the proof texts, the event values and the tag words of
\* the model
Lower(t) ==
    CASE t = "PROVEN" -> "proven" [] t = "Disproven" -> "disproven"
      [] t = "Y" -> "y"
      [] t = "@I1@" -> "@i1@" [] t = "@I2@" -> "@i2@" [] t = "@F1@" -> "@f1@"
      [] t = "NAME" -> "name" [] t = "DEAT" -> "deat" [] t = "BURI" -> "buri"
      [] t = "CREM" -> "crem" [] t = "BIRT" -> "birt" [] t = "BAPM" -> "bapm"
      [] t = "CHR" -> "chr" [] t = "EVEN" -> "even" [] t = "RESI" -> "resi"
      [] t = "MARR" -> "marr" [] t = "HUSB" -> "husb" [] t = "WIFE" -> "wife"
      [] t = "DATE" -> "date" [] t = "TIME" -> "time" [] t = "PLAC" -> "plac"
      [] t = "TYPE" -> "type" [] t = "NOTE" -> "note" [] t = "SOUR" -> "sour"
      [] t = "_PROOF" -> "_proof" [] t = "_PRIM" -> "_prim"
      [] t = "SEX" -> "sex" [] t = "CHIL" -> "chil" [] t = "FAMS" -> "fams"
      [] t = "FAMC" -> "famc" [] t = "@I3@" -> "@i3@" [] t = "@I4@" -> "@i4@"
      [] t = "@F2@" -> "@f2@" [] t = "@I9@" -> "@i9@"
      [] OTHER -> t

\* An event record as handle_event_tag stores it, reduced to its markers:
\* whether it has a _proof sub-line and its value, and whether it has a
\* _prim sub-line
Candidates ==
    [ has_proof : {TRUE}, proof : {"disproven", "Disproven", "other", "proven",
                                   "PROVEN", "maybe"}, has_prim : BOOLEAN ]
    \cup [ has_proof : {FALSE}, proof : {""}, has_prim : BOOLEAN ]

\* the value set_best_events gives one record
EventValue(section) ==
    LET default == EVENT_PROOF_VALUES("other")
        v1 == IF section.has_proof /\ Lower(section.proof) \in ProofTexts
              THEN EVENT_PROOF_VALUES(Lower(section.proof)) ELSE default
    IN  IF section.has_proof /\ section.has_prim THEN v1 * 10 ELSE v1

\* the loop over the records of one tag: <<value_best, found_best>>, with
\* found_best counted from 0 as in the code
BestOfTag(sects) ==
    LET smallest == 0 - 1
        B[k \in 0..Len(sects)] ==
          IF k = 0 THEN <<smallest, 0>>
          ELSE IF EventValue(sects[k]) > B[k-1][1]
               THEN <<EventValue(sects[k]), k - 1>>
               ELSE B[k-1]
    IN  B[Len(sects)]

\* set_best_events( single_time_list, out_data ): out_data[BEST_EVENT_KEY],
\* a best index for every listed tag of out_data whose best value is above
\* the value of disproven
set_best_events(single_time_list, out_data) ==
    [ tag \in { t \in Range(single_time_list) \cap DOMAIN out_data :
                  BestOfTag(out_data[t])[1] > EVENT_PROOF_VALUES("disproven") }
        |-> BestOfTag(out_data[tag])[2] ]

\* parse_individual ends with set_best_events( INDI_SINGLE_EVENTS, ... ),
\* parse_family with set_best_events( FAM_SINGLE_EVENTS, ... ): here on a
\* record with the candidates of one tag
BestParse ==
    /\ pc = "start"
    /\ \E tag \in {"birt", "marr"},
          cands \in SeqsUpTo(Candidates, MaxCandidates) \ {<<>>} :
         LET out_data == [ t \in {tag} |-> cands ]
             best == IF tag = "birt"
                     THEN set_best_events(INDI_SINGLE_EVENTS, out_data)
                     ELSE set_best_events(FAM_SINGLE_EVENTS, out_data)
             rec == [ tag |-> tag, events |-> cands, best_events |-> best ]
         IN  /\ individuals' = IF tag = "birt" THEN [ i \in {"i1"} |-> rec ]
                               ELSE individuals
             /\ families' = IF tag = "marr" THEN [ f \in {"f1"} |-> rec ]
                            ELSE families
             /\ trace' = [ op |-> "set_best_events", tag |-> tag ]
    /\ pc' = "parsed"
    /\ UNCHANGED <<run_settings, version, all_messages, sections, outf>>

BestNext == BestParse

SpecBest == XrefInit /\ [][BestNext]_vars

----------------------------------------------------------------------------
(* Dates: date_to_comparable and date_to_structure                          *)

\* The date texts of the model's input files and, for each, the words of
\* original.lower().split()
DateWords(text) ==
    CASE text = "1 JAN 1890"  -> <<"1", "jan", "1890">>
      [] text = "1 JAN 1990"  -> <<"1", "jan", "1990">>
      [] text = "5 NOV 2006"  -> <<"5", "nov", "2006">>
      [] text = "15 JUN 2020" -> <<"15", "jun", "2020">>
      [] text = "ABT 1950"    -> <<"abt", "1950">>
      [] text = "FEB 1890"    -> <<"feb", "1890">>
      [] text = "BET 1 JAN 1890 AND 15 JUN 2020"
                              -> <<"bet", "1", "jan", "1890", "and", "15",
                                   "jun", "2020">>
      [] text = "FROM 1990 TO 2 FEB 1991"
                              -> <<"from", "1990", "to", "2", "feb", "1991">>
      [] text = "TO 1 JAN 1990" -> <<"to", "1", "jan", "1990">>
      [] text = "BCE"         -> <<"bce">>
      [] text = "1 JAN 1990 noon" -> <<"1", "jan", "1990", "noon">>
      [] text = "1 JAN. 1990" -> <<"1", "jan.", "1990">>
      [] text = "1 JAN 19-90" -> <<"1", "jan", "19-90">>
      [] text = "1 JAN -"     -> <<"1", "jan", "-">>
      [] text = "1 - 1990"    -> <<"1", "-", "1990">>
      [] text = "- JAN 1990"  -> <<"-", "jan", "1990">>
      [] text = "32 JAN 1990" -> <<"32", "jan", "1990">>
      [] text = "1 FOO 1990"  -> <<"1", "foo", "1990">>
      [] text = "1 JAN x"     -> <<"1", "jan", "x">>
      [] text = "TO 1 JAN. 1990" -> <<"to", "1", "jan.", "1990">>
      [] text = "BET 1 JAN. 1890 AND 15 JUN 2020"
                              -> <<"bet", "1", "jan.", "1890", "and", "15",
                                   "jun", "2020">>
      [] text = "JULIAN 1 JAN 1990" -> <<"julian", "1", "jan", "1990">>
      [] OTHER                -> <<>>

\* int( s ) for the words string_like_int accepts
IntOf ==
    ("1" :> 1) @@ ("2" :> 2) @@ ("5" :> 5) @@ ("15" :> 15) @@ ("32" :> 32)
    @@ ("1890" :> 1890) @@ ("1950" :> 1950) @@ ("1990" :> 1990)
    @@ ("1991" :> 1991) @@ ("2006" :> 2006) @@ ("2020" :> 2020)
\* string_like_int( s ): no character of s is a non-digit, which holds for
\* the empty string too
string_like_int(s) == s = "" \/ s \in DOMAIN IntOf

\* w.replace( '-', '' ).replace( '.', '' ) on the words of the model
Stripped(w) ==
    CASE w = "jan." -> "jan" [] w = "19-90" -> "1990" [] w = "-" -> ""
      [] OTHER -> w

MONTH_NUMBERS ==
    ("jan" :> 1) @@ ("feb" :> 2) @@ ("mar" :> 3) @@ ("apr" :> 4)
    @@ ("may" :> 5) @@ ("jun" :> 6) @@ ("jul" :> 7) @@ ("aug" :> 8)
    @@ ("sep" :> 9) @@ ("oct" :> 10) @@ ("nov" :> 11) @@ ("dec" :> 12)
CALENDAR_NAMES == {"gregorian", "hebrew", "julian", "french_r"}
DATE_MODIFIERS == {"abt", "aft", "bef", "cal", "est"}
ALT_DATE_MODIFIERS ==
    ("about" :> "abt") @@ ("after" :> "aft") @@ ("before" :> "bef")
    @@ ("ca" :> "abt") @@ ("circa" :> "abt")

\* str( n ) and s.upper() on the years and modifiers of the model
Upper(m) ==
    CASE m = "abt" -> "ABT" [] m = "aft" -> "AFT" [] m = "bef" -> "BEF"
      [] m = "cal" -> "CAL" [] m = "est" -> "EST" [] m = "bet" -> "BET"
      [] m = "and" -> "AND" [] m = "from" -> "FROM" [] m = "to" -> "TO"
      [] OTHER -> m

\* a comparable value: '%04d%02d%02d' read as a number (the order of the
\* eight-digit strings is the order of the numbers); NoValue is Python None
NoValue == 0 - 1
Comparable(year, month, day) == year * 10000 + month * 100 + day

\* the result of date_to_comparable: value, malformed, add_abt_modifier,
\* the number of print_warn calls, and the status (ok, or ValueError when
\* it raises)
ComparableResult(v, mal, abt, warns, status) ==
    [ value |-> v, malformed |-> mal, add_abt_modifier |-> abt,
      warnings |-> warns, status |-> status ]

\* re.sub( r'^gregorian', '', date ) and re.sub( r'bce$', '', date )
WithoutCalendar(words) ==
    IF words # <<>> /\ words[1] = "gregorian" THEN Tail(words) ELSE words
WithoutEpoch(words) ==
    IF words # <<>> /\ words[Len(words)] = "bce"
    THEN SubSeq(words, 1, Len(words) - 1) ELSE words

\* the day, month and year words of one, two or three parts ("" for a
\* default that is not taken from the text)
DayWord(parts) == IF Len(parts) = 3 THEN parts[1] ELSE ""
MonthWord(parts) ==
    IF Len(parts) = 3 THEN parts[2]
    ELSE IF Len(parts) = 2 THEN parts[1] ELSE ""
YearWord(parts) ==
    IF Len(parts) = 3 THEN parts[3]
    ELSE IF Len(parts) = 2 THEN parts[2]
    ELSE IF Len(parts) = 1 THEN parts[1] ELSE ""

\* a word that is valid as it stands ("" is a default, not a word of the
\* text: split() gives no empty word)
DayOk(w)   == w = "" \/ (string_like_int(w) /\ IntOf[w] >= 1 /\ IntOf[w] <= 31)
MonthOk(w) == w = "" \/ w \in DOMAIN MONTH_NUMBERS
YearOk(w)  == w = "" \/ string_like_int(w)

\* a month or a year that is not valid as it stands: valid once '-' and '.'
\* are stripped, or not; a year with nothing left passes string_like_int
\* and int( '' ) raises ValueError
MonthRepaired(w) == ~MonthOk(w) /\ Stripped(w) \in DOMAIN MONTH_NUMBERS
MonthBad(w)      == ~MonthOk(w) /\ Stripped(w) \notin DOMAIN MONTH_NUMBERS
YearRepaired(w)  == ~YearOk(w) /\ Stripped(w) \in DOMAIN IntOf
YearEmpty(w)     == ~YearOk(w) /\ Stripped(w) = ""
YearBad(w)       == ~YearOk(w) /\ ~string_like_int(Stripped(w))

\* the day, month and year numbers: the number of the word, as it stands or
\* stripped, or the default 1
DayNumber(w)   == IF w # "" /\ DayOk(w) THEN IntOf[w] ELSE 1
MonthNumber(w) ==
    IF w # "" /\ MonthOk(w) THEN MONTH_NUMBERS[w]
    ELSE IF MonthRepaired(w) THEN MONTH_NUMBERS[Stripped(w)] ELSE 1
YearNumber(w)  ==
    IF w # "" /\ YearOk(w) THEN IntOf[w]
    ELSE IF YearRepaired(w) THEN IntOf[Stripped(w)] ELSE 1

RaisesNever(n, dayw, monthw, exit_bad_date) == FALSE

\* the tests of date_to_comparable that raise: with exit-on-bad-date the
\* count of parts, the day and the month before the year is looked at, then
\* the year that is not valid once stripped; with any setting the year
\* that is empty once stripped
RaisesEarly(n, dayw, monthw, exit_bad_date) ==
    exit_bad_date /\ (n > 3 \/ ~DayOk(dayw) \/ MonthBad(monthw))
RaisesAtYear(yearw, exit_bad_date) ==
    YearEmpty(yearw) \/ (exit_bad_date /\ YearBad(yearw))

\* the print_warn calls of date_to_comparable, up to the raise when there
\* is one: none for a month made valid by stripping, one for a year that
\* is not valid as it stands and one more when it is set to the default
ComparableWarnings(n, dayw, monthw, yearw, exit_bad_date) ==
    IF RaisesEarly(n, dayw, monthw, exit_bad_date) THEN 0
    ELSE (IF n > 3 THEN 1 ELSE 0) + (IF DayOk(dayw) THEN 0 ELSE 1)
           + (IF MonthBad(monthw) THEN 1 ELSE 0)
           + (IF YearOk(yearw) THEN 0
              ELSE IF YearBad(yearw) /\ ~exit_bad_date THEN 2 ELSE 1)

\* date_to_comparable once the words are split
ComparableOfWords(n, dayw, monthw, yearw, exit_bad_date) ==
    IF RaisesEarly(n, dayw, monthw, exit_bad_date)
       \/ RaisesAtYear(yearw, exit_bad_date)
    THEN ComparableResult(NoValue, TRUE, TRUE,
             ComparableWarnings(n, dayw, monthw, yearw, exit_bad_date),
             "ValueError")
    ELSE ComparableResult(
             Comparable(YearNumber(yearw), MonthNumber(monthw),
                        DayNumber(dayw)),
             n > 3 \/ ~DayOk(dayw) \/ ~MonthOk(monthw) \/ ~YearOk(yearw),
             n # 3 \/ ~DayOk(dayw) \/ ~MonthOk(monthw) \/ ~YearOk(yearw),
             ComparableWarnings(n, dayw, monthw, yearw, exit_bad_date),
             "ok")

ComparableOfParts(parts, exit_bad_date) ==
    IF parts = <<>> THEN ComparableResult(NoValue, FALSE, FALSE, 0, "ok")
    ELSE IF parts[1] \in CALENDAR_NAMES
    THEN ComparableResult(NoValue, TRUE, TRUE, 0, "ValueError")
    ELSE ComparableOfWords(Len(parts), DayWord(parts), MonthWord(parts),
                           YearWord(parts), exit_bad_date)

\* date_to_comparable on the words of a date
date_to_comparable(words, exit_bad_date) ==
    ComparableOfParts(WithoutEpoch(WithoutCalendar(words)), exit_bad_date)

\* the words of a list without those equal to w that have a word after
\* them: given.replace( w + ' ', '' )
WithoutWord(words, w) ==
    LET F[k \in 0..Len(words)] ==
          IF k = 0 THEN <<>>
          ELSE IF words[k] = w /\ k < Len(words) THEN F[k-1]
               ELSE Append(F[k-1], words[k])
    IN  F[Len(words)]

\* the positions of w with a word on both sides: ' w ' in given
Inside(words, w) == { k \in 2..(Len(words) - 1) : words[k] = w }

\* given.split( ' w ' ): the first two parts, <<>> when there is no second
SplitAt(words, w) ==
    IF Inside(words, w) = {} THEN <<>>
    ELSE LET a == CHOOSE k \in Inside(words, w) :
                     \A j \in Inside(words, w) : k <= j
             later == { k \in Inside(words, w) : k > a + 1 }
             b == IF later = {} THEN Len(words) + 1
                  ELSE CHOOSE k \in later : \A j \in later : k <= j
         IN  << SubSeq(words, 1, a - 1), SubSeq(words, a + 1, b - 1) >>

\* value[0:4] as an int, None without a value
YearOf(value) == IF value = NoValue THEN NoValue ELSE value \div 10000

\* one end of a DateValue: min or max
DateEnd(v, mod) == [ modifier |-> mod, value |-> v, year |-> YearOf(v) ]

\* date_comparable_results: 'ABT' for an end without a modifier when the
\* date was not full
AbtModifier(r, mod) == IF r.add_abt_modifier /\ mod = "" THEN "ABT" ELSE mod

\* a known DateValue, with the number of warnings and the status of its
\* parsing
KnownDate(original, rng, mal, mn, mx, warns, status) ==
    [ is_known |-> TRUE, is_range |-> rng, in |-> original,
      malformed |-> mal, min |-> mn, max |-> mx,
      warnings |-> warns, status |-> status ]

\* the DateValue date_to_structure starts from: not a range, not malformed,
\* the modifier of min as given, min and max without a value yet
NewDate(original, mod) ==
    KnownDate(original, FALSE, FALSE, DateEnd(NoValue, mod),
              DateEnd(NoValue, ""), 0, "ok")

\* date_comparable_results( original, key, date_data ), r being the result
\* of date_to_comparable: the value of the end, malformed set when it was
\* not, 'ABT' for each end that has no modifier when r asks for it.  A
\* conversion after one that raised is not made.
ComparableResults(dv, key, r) ==
    IF dv.status # "ok" THEN dv
    ELSE [ dv EXCEPT
             ![key].value = r.value,
             !.malformed = @ \/ r.malformed,
             !.min.modifier = AbtModifier(r, @),
             !.max.modifier = AbtModifier(r, @),
             !.warnings = @ + r.warnings,
             !.status = r.status ]

MaxLeftAsIs(dv) == dv

\* for item in ['value','modifier']: value['max'][item] = value['min'][item]
CopyMinToMax(dv) ==
    [ dv EXCEPT !.max.value = dv.min.value,
                !.max.modifier = dv.min.modifier ]

\* the year of each end from its value, at the end of date_to_structure
SetYears(dv) ==
    [ dv EXCEPT !.min.year = YearOf(dv.min.value),
                !.max.year = YearOf(dv.max.value) ]

\* the modifiers of the two ends of a range, set after the conversions
RangeModifiers(dv, open, close) ==
    [ dv EXCEPT !.is_range = TRUE, !.min.modifier = open,
                !.max.modifier = close ]

\* date_to_structure, a 'from .. to ..' or a 'bet .. and ..' text, from the
\* results a and b for its two parts
RangeOfResults(original, open, close, a, b) ==
    SetYears(RangeModifiers(
        ComparableResults(ComparableResults(NewDate(original, ""), "min", a),
                          "max", b),
        open, close))

\* the IndexError of a missing second part is the status crash
RangeOfParts(original, open, close, parts, exit_bad_date) ==
    IF parts = <<>>
    THEN KnownDate(original, TRUE, FALSE, DateEnd(NoValue, ""),
                   DateEnd(NoValue, ""), 0, "crash")
    ELSE RangeOfResults(original, open, close,
                        date_to_comparable(parts[1], exit_bad_date),
                        date_to_comparable(parts[2], exit_bad_date))

RangeDate(original, given, open, close, exit_bad_date) ==
    RangeOfParts(original, open, close,
                 SplitAt(WithoutWord(given, open), close), exit_bad_date)

\* date_to_structure, a single date with or without a modifier
SingleModifier(given) ==
    IF given[1] \in DATE_MODIFIERS THEN given[1]
    ELSE IF given[1] \in DOMAIN ALT_DATE_MODIFIERS
         THEN ALT_DATE_MODIFIERS[given[1]] ELSE ""

SingleOfResult(original, mod, r) ==
    SetYears(CopyMinToMax(
        ComparableResults(NewDate(original, mod), "min", r)))

SingleDate(original, given, exit_bad_date) ==
    SingleOfResult(original, SingleModifier(given),
        date_to_comparable(IF SingleModifier(given) # ""
                           THEN WithoutWord(given, given[1]) ELSE given,
                           exit_bad_date))

\* date_to_structure, a 'to ..' text: the modifier of min is set to 'to'
\* after the conversion
UptoModifier(dv) == [ dv EXCEPT !.min.modifier = "to" ]

UptoOfResult(original, r) ==
    SetYears(CopyMinToMax(UptoModifier(
        ComparableResults(NewDate(original, ""), "min", r))))

UptoDate(original, given, exit_bad_date) ==
    UptoOfResult(original,
                 date_to_comparable(WithoutWord(given, "to"), exit_bad_date))

\* date_to_structure on the words of the text
StructureOfWords(original, given, exit_bad_date) ==
    IF given = <<>> THEN [ is_known |-> FALSE ]
    ELSE IF (\E k \in 1..(Len(given) - 1) : given[k] = "from")
            /\ Inside(given, "to") # {}
    THEN RangeDate(original, given, "from", "to", exit_bad_date)
    ELSE IF (\E k \in 1..(Len(given) - 1) : given[k] = "bet")
            /\ Inside(given, "and") # {}
    THEN RangeDate(original, given, "bet", "and", exit_bad_date)
    ELSE IF given[1] = "to" /\ Len(given) > 1
    THEN UptoDate(original, given, exit_bad_date)
    ELSE SingleDate(original, given, exit_bad_date)

\* date_to_structure( original ): the DateValue of a date text; an empty
\* or absent text gives a structure that holds is_known only
date_to_structure(original, exit_bad_date) ==
    StructureOfWords(original, DateWords(original), exit_bad_date)

----------------------------------------------------------------------------
(* Events: handle_event_tag, handle_custom_event and the record parsers on  *)
(* the event lines of a record                                              *)

\* an input line given by its level, its second word and the rest
Line(level, word, value) ==
    [ txt |-> ToString(level) \o " " \o word
                \o (IF value = "" THEN "" ELSE " " \o value),
      pad |-> FALSE, level |-> level, tag |-> Lower(word), value |-> value,
      word |-> word ]

FAM_EVENT_TAGS ==
    {"anul", "cens", "div", "divf", "enga", "marb", "marc", "marl", "mars",
     "marr", "even"}
INDI_EVENT_TAGS ==
    {"bapm", "barm", "basm", "bles", "buri", "cens", "chra", "conf", "crem",
     "deat", "emig", "fact", "fcom", "grad", "immi", "natu", "ordn", "prob",
     "reti", "will", "adop", "birt", "chr", "even"}
OTHER_INDI_TAGS == {"sex", "exid", "fams", "famc", "refn", "_uid", "uuid",
                    "_uuid"}
FAM_MEMBER_TAGS == {"husb", "wife", "chil"}

\* the last sub-line of a node with the given tag, 0 when there is none
\* (a later values[tag2] = ... replaces an earlier one)
LastSub(node, tag2) ==
    LET ks == { k \in 1..Len(node.sub) : node.sub[k].tag = tag2 }
    IN  IF ks = {} THEN 0 ELSE CHOOSE k \in ks : \A j \in ks : j <= k

\* the date structures handle_event_dates builds for the DATE sub-lines of
\* a level-1 line, in order
SubDates(level1, exit_bad_date) ==
    LET F[k \in 0..Len(level1.sub)] ==
          IF k = 0 THEN <<>>
          ELSE IF level1.sub[k].tag = "date"
               THEN Append(F[k-1], date_to_structure(level1.sub[k].value,
                                                     exit_bad_date))
               ELSE F[k-1]
    IN  F[Len(level1.sub)]

\* the values of an event: the last of its dates (always present, unknown
\* without a DATE line, for an event that is not custom), the flag of an
\* event line with the value Y or UNKNOWN, the last proof marker and the
\* presence of a primary marker
EventValues(level1, dates, kp, is_custom) ==
    [ has_date |-> ~is_custom \/ dates # <<>>,
      date |-> IF dates # <<>> THEN dates[Len(dates)]
               ELSE [ is_known |-> FALSE ],
      flagged |-> ~is_custom /\ Lower(level1.value) \in {"y", "unknown"},
      has_proof |-> kp > 0,
      proof |-> IF kp > 0 THEN level1.sub[kp].value ELSE "",
      has_prim |-> LastSub(level1, "_prim") > 0 ]

\* handle_event_tag( tag, level1, out_data ): the values it appends.  An
\* event of INDI_EVENT_TAGS + FAM_EVENT_TAGS always gets a date, unknown
\* when no DATE line gives one; flagged is stored beside the date.
handle_event_tag(level1, exit_bad_date) ==
    EventValues(level1, SubDates(level1, exit_bad_date),
                LastSub(level1, "_proof"), FALSE)

\* handle_custom_event: the same without the date placeholder and without
\* the flag
handle_custom_event(level1, exit_bad_date) ==
    EventValues(level1, SubDates(level1, exit_bad_date),
                LastSub(level1, "_proof"), TRUE)

\* the status of the date parsing of a list of date structures: the first
\* one that is not ok
StatusOf(ds) ==
    IF \A k \in 1..Len(ds) : ~ds[k].is_known \/ ds[k].status = "ok" THEN "ok"
    ELSE ds[CHOOSE k \in 1..Len(ds) :
               /\ ds[k].is_known /\ ds[k].status # "ok"
               /\ \A j \in 1..(k - 1) :
                    ~ds[j].is_known \/ ds[j].status = "ok"].status

\* the print_warn calls of the date parsing of a list of date structures,
\* up to the one that raises
WarningsOf(ds) ==
    LET F[k \in 0..Len(ds)] ==
          IF k = 0 THEN <<>>
          ELSE IF ds[k].is_known /\ StatusOf(SubSeq(ds, 1, k - 1)) = "ok"
               THEN F[k-1] \o [ j \in 1..ds[k].warnings |->
                                  <<"malformed date", ds[k].in>> ]
               ELSE F[k-1]
    IN  F[Len(ds)]

\* the print_warn calls of the date parsing of a level-1 event line
DateWarnings(level1, exit_bad_date) ==
    WarningsOf(SubDates(level1, exit_bad_date))

DateStatus(level1, exit_bad_date) ==
    StatusOf(SubDates(level1, exit_bad_date))

\* the event tags and the other parsed tags of parse_individual (is_indi)
\* or parse_family
EventTagsOf(is_indi) == IF is_indi THEN INDI_EVENT_TAGS ELSE FAM_EVENT_TAGS
OtherTagsOf(is_indi) ==
    IF is_indi THEN OTHER_INDI_TAGS \cup {"name"} ELSE FAM_MEMBER_TAGS

\* what a parsed level-1 line appends to the list of its tag
Level1Value(level1, is_indi, exit_bad_date) ==
    IF level1.tag \in {"even", "fact"}
    THEN handle_custom_event(level1, exit_bad_date)
    ELSE IF level1.tag \in EventTagsOf(is_indi)
    THEN handle_event_tag(level1, exit_bad_date)
    ELSE IF level1.tag \in {"fams", "famc", "husb", "wife", "chil"}
    THEN extract_id(Lower(level1.value))
    ELSE level1.value

\* the list of a key of out_data, empty when the key is not there yet
KeyList(out_data, tag) ==
    IF tag \in DOMAIN out_data THEN out_data[tag] ELSE <<>>

\* a parsed level-1 line: its value appended to the list of its tag, the
\* back-pointer 'parsed' set on the line
AddLevel1(prev, level1, value, warnings, status) ==
    [ out_data |->
        [ t \in DOMAIN prev.out_data \cup {level1.tag} |->
            IF t = level1.tag
            THEN Append(KeyList(prev.out_data, t), value)
            ELSE prev.out_data[t] ],
      sub |-> Append(prev.sub,
                level1 @@ [ parsed |->
                              [ key |-> level1.tag,
                                index |-> Len(KeyList(prev.out_data,
                                                      level1.tag)) ] ]),
      messages |-> prev.messages \o warnings,
      status |-> status ]

\* one level-1 line of the loop of parse_individual or parse_family
Level1Step(prev, level1, is_indi, exit_bad_date) ==
    IF prev.status # "ok" THEN prev
    ELSE IF level1.tag \in {"even", "fact"}
            /\ level1.tag \notin EventTagsOf(is_indi)
    THEN [ prev EXCEPT !.status = "crash" ]
    ELSE IF level1.tag \notin EventTagsOf(is_indi) \cup OtherTagsOf(is_indi)
    THEN [ prev EXCEPT !.sub = Append(@, level1) ]
    ELSE IF level1.tag \in EventTagsOf(is_indi)
    THEN AddLevel1(prev, level1,
                   Level1Value(level1, is_indi, exit_bad_date),
                   DateWarnings(level1, exit_bad_date),
                   DateStatus(level1, exit_bad_date))
    ELSE AddLevel1(prev, level1,
                   Level1Value(level1, is_indi, exit_bad_date), <<>>, "ok")

Level1Loop(level0, is_indi, exit_bad_date) ==
    LET F[k \in 0..Len(level0.sub)] ==
          IF k = 0
          THEN [ out_data |-> IF is_indi THEN [ t \in {} |-> <<>> ]
                              ELSE [ t \in {"chil"} |-> <<>> ],
                 sub |-> <<>>, messages |-> <<>>, status |-> "ok" ]
          ELSE Level1Step(F[k-1], level0.sub[k], is_indi, exit_bad_date)
    IN  F[Len(level0.sub)]

\* after the loop: an individual without a NAME line gets the name list of
\* UNKNOWN_NAME and a warning
Level1Result(level0, end, noname) ==
    [ out_data |-> IF noname
                   THEN end.out_data @@ [ t \in {"name"} |-> <<"[-?-]">> ]
                   ELSE end.out_data,
      level0 |-> [ level0 EXCEPT !.sub = end.sub ],
      messages |-> IF noname
                   THEN Append(end.messages, <<"missing name", level0.in.txt>>)
                   ELSE end.messages,
      status |-> end.status ]

Level1End(level0, is_indi, end) ==
    Level1Result(level0, end,
                 is_indi /\ "name" \notin DOMAIN end.out_data
                 /\ end.status = "ok")

\* The loop over the level-1 lines of parse_individual (is_indi) or
\* parse_family: the key lists built (events hold their values, the other
\* parsed tags the value of the line), the record with the back-pointer
\* 'parsed' on every line copied, the warnings, and the status (ValueError
\* from a date, crash for the KeyError of a FACT line in a family)
ParseLevel1(level0, is_indi, exit_bad_date) ==
    Level1End(level0, is_indi, Level1Loop(level0, is_indi, exit_bad_date))

----------------------------------------------------------------------------
(* The privatize flag                                                       *)

PRIVATIZE_OFF == 0
PRIVATIZE_MIN == PRIVATIZE_OFF + 1
PRIVATIZE_MAX == PRIVATIZE_MIN + 1

\* datetime arithmetic: the day number of a date of the proleptic
\* Gregorian calendar (1970-01-01 is day 0) and the date of a day number
ToOrdinal(date) ==
    LET y   == IF date.month <= 2 THEN date.year - 1 ELSE date.year
        era == y \div 400
        yoe == y - era * 400
        mp  == IF date.month > 2 THEN date.month - 3 ELSE date.month + 9
        doy == (153 * mp + 2) \div 5 + date.day - 1
        doe == yoe * 365 + yoe \div 4 - yoe \div 100 + doy
    IN  era * 146097 + doe - 719468

FromOrdinal(days) ==
    LET z   == days + 719468
        era == z \div 146097
        doe == z - era * 146097
        yoe == (doe - doe \div 1460 + doe \div 36524 - doe \div 146096) \div 365
        doy == doe - (365 * yoe + yoe \div 4 - yoe \div 100)
        mp  == (5 * doy + 2) \div 153
        d   == doy - (153 * mp + 2) \div 5 + 1
        m   == IF mp < 10 THEN mp + 3 ELSE mp - 9
        y   == yoe + era * 400
    IN  [ year |-> IF m <= 2 THEN y + 1 ELSE y, month |-> m, day |-> d ]

\* comparable_before_today( years_ago ), now being the date when it is
\* called
comparable_before_today(now, years_ago) ==
    LET leap_days == years_ago % 4
        old_date == FromOrdinal(ToOrdinal(now) - (365 * years_ago + leap_days))
    IN  Comparable(old_date.year, old_date.month, old_date.day)

\* results of a step of compute_privatize_flag that are not a level: the
\* result is left as it is; the comparison of None raises TypeError
KeepResult == 0 - 1
TypeError  == 0 - 2

\* One step of a loop of compute_privatize_flag over a list of keys, e
\* being <<stop, result>> for its key: whether the loop stops at the key,
\* and the result it leaves
KeyStep(prev, e) ==
    [ result |-> IF e[2] = KeepResult THEN prev.result ELSE e[2],
      stopped |-> e[1] ]

\* the first event of a key, whatever the best one is
FirstPosition(data, key) == 1

\* data[BEST_EVENT_KEY].get( key, 0 ), as a position from 1
BestPosition(data, key) ==
    IF key \in DOMAIN data.best_events THEN data.best_events[key] + 1 ELSE 1

\* the loop over the deceased keys found no key at all: the result is still
\* the default
NoDeathEvent(second) == second.result = PRIVATIZE_MAX

\* 'if not tested_date': the loop over the deceased keys stopped at no
\* known date
NoDateTested(second) == ~second.stopped

\* the first loop at a key: 'flagged' in data[key][0]['date']
FlagTest(data, key) ==
    IF data.out_data[key][1].has_date
       /\ "flagged" \in DOMAIN data.out_data[key][1].date
    THEN <<TRUE, PRIVATIZE_MIN>> ELSE <<FALSE, KeepResult>>

\* the first loop, over the deceased keys: the result after it and whether
\* it stopped
FlagLoop(keys, data, start) ==
    LET F[k \in 0..Len(keys)] ==
          IF k = 0 THEN [ result |-> start, stopped |-> FALSE ]
          ELSE IF F[k-1].stopped \/ keys[k] \notin DOMAIN data.out_data
               THEN F[k-1]
               ELSE KeyStep(F[k-1], FlagTest(data, keys[k]))
    IN  F[Len(keys)]

\* the later loops at an event: a known date stops the loop, one at or
\* before the limit gives OFF; relaxed is what the loop leaves otherwise
DateTest(ev, limit, relaxed) ==
    IF ev.has_date /\ ev.date.is_known
    THEN IF ev.date.max.value = NoValue THEN <<TRUE, TypeError>>
         ELSE IF ev.date.max.value <= limit THEN <<TRUE, PRIVATIZE_OFF>>
         ELSE <<TRUE, relaxed>>
    ELSE <<FALSE, relaxed>>

\* the second loop (over the deceased keys, relaxed to MIN) and the third
\* (over the birth keys, the result kept), on the best event of each key
DateLoop(keys, data, start, limit, relaxed) ==
    LET F[k \in 0..Len(keys)] ==
          IF k = 0 THEN [ result |-> start, stopped |-> FALSE ]
          ELSE IF F[k-1].stopped \/ keys[k] \notin DOMAIN data.out_data
               THEN F[k-1]
               ELSE KeyStep(F[k-1],
                        DateTest(data.out_data[keys[k]]
                                     [BestPosition(data, keys[k])],
                                 limit, relaxed))
    IN  F[Len(keys)]

\* after the second loop: the birth keys when no death date was tested
FlagAfterDeaths(second, birth_limit, data) ==
    IF NoDateTested(second)
    THEN DateLoop(<<"birt", "bapm", "chr">>, data, second.result,
                  birth_limit, KeepResult).result
    ELSE second.result

\* compute_privatize_flag( death_limit, birth_limit, data ): the level, or
\* TypeError when a known date without a value is compared
compute_privatize_flag(death_limit, birth_limit, data) ==
    FlagAfterDeaths(
        DateLoop(<<"deat", "buri", "crem">>, data,
                 FlagLoop(<<"deat", "buri", "crem">>, data,
                          PRIVATIZE_MAX).result,
                 death_limit, PRIVATIZE_MIN),
        birth_limit, data)

\* the loop of set_privatize_flag over the individuals, in dict order; a
\* TypeError leaves the flags set so far
IndividualFlags(indis, indi_order, compare_with_death, compare_with_birth) ==
    LET I[k \in 0..Len(indi_order)] ==
          IF k = 0 THEN [ individuals |-> indis, status |-> "ok" ]
          ELSE IF I[k-1].status # "ok" THEN I[k-1]
          ELSE IF compute_privatize_flag(compare_with_death,
                      compare_with_birth, indis[indi_order[k]]) = TypeError
          THEN [ I[k-1] EXCEPT !.status = "crash" ]
          ELSE [ I[k-1] EXCEPT !.individuals[indi_order[k]].privatized =
                   compute_privatize_flag(compare_with_death,
                       compare_with_birth, indis[indi_order[k]]) ]
    IN  I[Len(indi_order)]

\* the husband of a family alone
HusbandOnly(fam) == IF "husb" \in fam.keys THEN Range(fam.husb) ELSE {}

\* the partners of a family: its husb and wife lists
Partners(fam) ==
    (IF "husb" \in fam.keys THEN Range(fam.husb) ELSE {})
    \cup (IF "wife" \in fam.keys THEN Range(fam.wife) ELSE {})

\* the level of a family: the highest of PRIVATIZE_OFF and the levels of
\* its partners
FamilyFlag(fam, indis) ==
    CHOOSE v \in {PRIVATIZE_OFF} \cup { indis[i].privatized : i \in Partners(fam) } :
      \A w \in {PRIVATIZE_OFF} \cup { indis[i].privatized : i \in Partners(fam) } :
        w <= v

\* the loop of set_privatize_flag over the families
FamilyFlags(fams, done) ==
    [ individuals |-> done.individuals,
      families |-> IF done.status # "ok" THEN fams
                   ELSE [ f \in DOMAIN fams |->
                            [ fams[f] EXCEPT !.privatized =
                                FamilyFlag(fams[f], done.individuals) ] ],
      status |-> done.status ]

\* set_privatize_flag( data, years_since_death, max_lifetime ), called at
\* the date now: every individual, then every family
set_privatize_flag(indis, fams, indi_order, now, years_since_death, max_lifetime) ==
    FamilyFlags(fams,
        IndividualFlags(indis, indi_order,
            comparable_before_today(now, years_since_death),
            comparable_before_today(now, years_since_death + max_lifetime)))

----------------------------------------------------------------------------
(* The privatized writer                                                    *)

\* print( parts[0], parts[1], value ): the line written from the first two
\* words of an input line and a new value
PrintedLine(line, value) ==
    [ txt |-> ToString(line.level) \o " " \o line.word \o " " \o value,
      pad |-> FALSE, level |-> line.level, tag |-> Lower(line.word),
      value |-> value, word |-> line.word ]

\* get_parsed_year( data ): modifier and year of a known date, both ends of
\* a range, '' for an unknown date
get_parsed_year(data) ==
    LET part(end) ==
            (IF end.modifier # "" THEN Upper(end.modifier) \o " " ELSE "")
            \o (IF end.year = NoValue THEN "None" ELSE ToString(end.year))
    IN  IF ~data.is_known THEN ""
        ELSE IF data.is_range THEN part(data.min) \o " " \o part(data.max)
        ELSE part(data.min)

\* get_reduced_date( lookup, parsed_data )
get_reduced_date(lookup, parsed_data) ==
    LET ev == parsed_data[lookup.key][lookup.index + 1]
    IN  IF ev.has_date THEN get_parsed_year(ev.date) ELSE ""

\* the lines of a list of nodes, those of the date nodes too
output_section_with_dates(section) == output_section(section)

\* output_section_no_dates: the lines of a list of nodes without the date
\* nodes and what is under them
RECURSIVE output_section_no_dates(_)
output_section_no_dates(section) ==
    IF section = <<>> THEN <<>>
    ELSE LET level == Head(section)
         IN  (IF level.tag # "date"
              THEN <<level.in>> \o output_section_no_dates(level.sub)
              ELSE <<>>)
             \o output_section_no_dates(Tail(section))

\* output_privatized_section( level0, priv_setting, event_list,
\* parsed_data, outf ): the lines written for a record whose level is not
\* off
output_privatized_section(level0, priv_setting, event_list, parsed_data) ==
    LET reduced(level1) ==
          LET G[j \in 0..Len(level1.sub)] ==
                IF j = 0 THEN <<level1.in>>
                ELSE LET level2 == level1.sub[j]
                     IN  G[j-1]
                         \o (IF Lower(level2.in.word) = "date"
                             THEN << PrintedLine(level2.in,
                                        get_reduced_date(level1.parsed,
                                                         parsed_data)) >>
                             ELSE <<level2.in>>)
                         \o output_section(level2.sub)
          IN  G[Len(level1.sub)]
        F[k \in 0..Len(level0.sub)] ==
          IF k = 0 THEN <<level0.in>>
          ELSE LET level1 == level0.sub[k]
                   tag1 == Lower(level1.in.word)
               IN  F[k-1] \o
                   (IF tag1 \in event_list
                    THEN IF priv_setting = PRIVATIZE_MAX
                         THEN IF tag1 = "even"
                              THEN <<level1.in>>
                                   \o output_section_no_dates(level1.sub)
                              ELSE << PrintedLine(level1.in, "Y") >>
                         ELSE reduced(level1)
                    ELSE output_sub_section(level1))
    IN  F[Len(level0.sub)]

\* the lines output_privatized writes for one individual or family record
PrivatizedRecord(section, is_indi, parsed) ==
    LET entry == parsed[extract_id(section.tag)]
    IN  IF entry.privatized = PRIVATIZE_OFF THEN output_sub_section(section)
        ELSE output_privatized_section(section, entry.privatized,
                 IF is_indi THEN INDI_EVENT_TAGS ELSE FAM_EVENT_TAGS,
                 entry.out_data)

\* output_privatized( data, file ): the listed sections in the order of
\* SECTION_NAMES without the trailer, the individual and family records
\* through their level, then the other sections, then the trailer
output_privatized(data, unknown, indis, fams) ==
    LET records(sect) ==
          LET R[k \in 0..Len(data[sect])] ==
                IF k = 0 THEN <<>>
                ELSE R[k-1] \o PrivatizedRecord(data[sect][k],
                                   sect = SECT_INDI,
                                   IF sect = SECT_INDI THEN indis ELSE fams)
          IN  R[Len(data[sect])]
        K[k \in 0..Len(SECTION_NAMES)] ==
          IF k = 0 THEN <<>>
          ELSE LET sect == SECTION_NAMES[k]
               IN  IF sect = SECT_TRLR THEN K[k-1]
                   ELSE IF sect \in {SECT_INDI, SECT_FAM}
                   THEN K[k-1] \o records(sect)
                   ELSE K[k-1] \o output_section(data[sect])
        U[k \in 0..Len(unknown)] ==
          IF k = 0 THEN <<>>
          ELSE U[k-1] \o output_section(data[unknown[k]])
    IN  K[Len(SECTION_NAMES)] \o U[Len(unknown)]
        \o output_section(data[SECT_TRLR])

----------------------------------------------------------------------------
(* read_file, set_privatize_flag and output_privatized on files with events *)

\* Bound: event blocks of the first individual of an input file
MaxEvents == 2

DateLine(text) == Line(2, "DATE", text)
TimeLine == Line(3, "TIME", "12:00")

\* The level-1 blocks an individual record is put together from
DeatFlagged == << Line(1, "DEAT", "Y") >>
DeatOld     == << Line(1, "DEAT", ""), DateLine("1 JAN 1990") >>
DeatRecentProven ==
    << Line(1, "DEAT", ""), DateLine("15 JUN 2020"),
       Line(2, "_PROOF", "proven") >>
DeatNoValue == << Line(1, "DEAT", ""), DateLine("BCE") >>
BuriPlace   == << Line(1, "BURI", ""), Line(2, "PLAC", "p") >>
BuriOld     == << Line(1, "BURI", ""), DateLine("1 JAN 1990") >>
BuriEdge    == << Line(1, "BURI", ""), DateLine("5 NOV 2006"), TimeLine >>
CremRange   ==
    << Line(1, "CREM", ""), DateLine("BET 1 JAN 1890 AND 15 JUN 2020") >>
BirtOld     == << Line(1, "BIRT", ""), DateLine("1 JAN 1890"), TimeLine,
                  Line(2, "PLAC", "p") >>
BirtRecentPrimary ==
    << Line(1, "BIRT", ""), DateLine("ABT 1950"), Line(2, "_PRIM", "Y") >>
BapmOld     == << Line(1, "BAPM", ""), DateLine("FEB 1890") >>
ChrPlace    == << Line(1, "CHR", ""), Line(2, "PLAC", "p") >>
EvenDated   ==
    << Line(1, "EVEN", "x"), Line(2, "TYPE", "t"), DateLine("5 NOV 2006"),
       TimeLine, Line(2, "NOTE", "n"), Line(3, "DATE", "15 JUN 2020") >>
ResiDated   == << Line(1, "RESI", ""), DateLine("15 JUN 2020") >>

EventBlocks ==
    { DeatFlagged, DeatOld, DeatRecentProven, DeatNoValue, BuriPlace,
      BuriOld, BuriEdge, CremRange, BirtOld, BirtRecentPrimary, BapmOld,
      ChrPlace, EvenDated, ResiDated }

Indi1Start == << Line(0, "@I1@", "INDI"), Line(1, "NAME", "a") >>
Indi2Start == << Line(0, "@I2@", "INDI"), Line(1, "NAME", "b") >>

\* the second individual of a file with a family: deceased recently, long
\* ago, without any event, or not in the file
Indi2Records ==
    { Indi2Start \o DeatRecentProven, Indi2Start \o BuriOld, Indi2Start,
      <<>> }

\* the family record: the partners named, a marriage and a custom event
FamEvents ==
    << Line(1, "MARR", ""), DateLine("1 JAN 1990"), TimeLine,
       Line(1, "EVEN", "y"), DateLine("15 JUN 2020"),
       Line(1, "BIRT", ""), DateLine("1 JAN 1890") >>
FamRecords1 ==
    { << Line(0, "@F1@", "FAM"), Line(1, "HUSB", "@I1@"),
         Line(1, "WIFE", "@I2@") >> \o FamEvents,
      << Line(0, "@F1@", "FAM"), Line(1, "HUSB", "@I1@") >> \o FamEvents,
      << Line(0, "@F1@", "FAM"), Line(1, "WIFE", "@I2@") >> \o FamEvents,
      << Line(0, "@F1@", "FAM") >> \o FamEvents }

\* The input files: one individual with up to MaxEvents blocks, or two
\* individuals and a family
PrivFiles ==
    { HeadRecord \o Indi1Start \o Flatten(blocks) \o TrailerRecord :
        blocks \in SeqsUpTo(EventBlocks, MaxEvents) }
    \cup { HeadRecord \o Indi1Start \o block \o indi2 \o fam \o TrailerRecord :
             block \in EventBlocks, indi2 \in Indi2Records,
             fam \in FamRecords1 }

\* the entry of a parsed record: its keys, its events, its names and sex
\* values (the 'value' of a name without slashes is the text of the line),
\* the best events (a
\* name or a sex entry holds no proof or primary marker), the level, its
\* family links
ParsedEntry(od, is_indi) ==
    [ keys |-> DOMAIN od,
      out_data |-> [ t \in DOMAIN od \cap (INDI_EVENT_TAGS \cup FAM_EVENT_TAGS)
                       |-> od[t] ],
      values |-> [ t \in DOMAIN od \cap {"name", "sex"} |-> od[t] ],
      best_events |->
          set_best_events(IF is_indi THEN INDI_SINGLE_EVENTS
                          ELSE FAM_SINGLE_EVENTS,
                          [ t \in DOMAIN od
                                  \cap (INDI_EVENT_TAGS \cup FAM_EVENT_TAGS)
                              |-> od[t] ])
          @@ [ t \in DOMAIN od \cap {"name", "sex"} |-> 0 ],
      privatized |-> PRIVATIZE_OFF ]
    @@ (IF is_indi
        THEN [ fams |-> KeyList(od, "fams"), famc |-> KeyList(od, "famc") ]
        ELSE [ husb |-> KeyList(od, "husb"), wife |-> KeyList(od, "wife"),
               chil |-> KeyList(od, "chil") ])

\* a parsed record stored under its id
AddParsed(prev, id, p, e) ==
    [ parsed |-> [ x \in DOMAIN prev.parsed \cup {id} |->
                     IF x = id THEN e ELSE prev.parsed[x] ],
      section |-> Append(prev.section, p.level0),
      order |-> IF id \in DOMAIN prev.parsed THEN prev.order
                ELSE Append(prev.order, id),
      messages |-> prev.messages \o p.messages,
      status |-> "ok" ]

\* one record of the loop of setup_parsed_families or
\* setup_parsed_individuals, p being the result of its parser
SectionStep(prev, record, is_indi, p) ==
    IF prev.status # "ok" THEN prev
    ELSE IF p.status # "ok"
    THEN [ prev EXCEPT !.status = p.status,
                       !.messages = prev.messages \o p.messages ]
    ELSE IF ~is_indi /\ ensure_not_twice(ParsedEntry(p.out_data, is_indi))
    THEN [ prev EXCEPT !.status = "ValueError" ]
    ELSE AddParsed(prev, extract_id(record.tag), p,
                   ParsedEntry(p.out_data, is_indi))

\* setup_parsed_families / setup_parsed_individuals on the records of a
\* section, in file order: the parsed entries, the records with their
\* back-pointers, the order of the entries, the warnings and the status.
\* (The individuals of these files carry no FAMS or FAMC line.)
ParseSection(section, is_indi, exit_bad_date) ==
    LET F[k \in 0..Len(section)] ==
          IF k = 0
          THEN [ parsed |-> NoDocument, section |-> <<>>, order |-> <<>>,
                 messages |-> <<>>, status |-> "ok" ]
          ELSE SectionStep(F[k-1], section[k], is_indi,
                           ParseLevel1(section[k], is_indi, exit_bad_date))
    IN  F[Len(section)]

\* the dates set_privatize_flag is called at, and its parameters
NowDates == { [ year |-> 2026, month |-> 11, day |-> 2 ] }
YearsSinceDeath == {20, 21}
MaxLifetimes == {104}

\* what read_file returns or how it ends, from the results of its steps
ReadFileResult(st, fp, ip, res) ==
    [ status |-> IF st.status # "ok" THEN st.status
                 ELSE IF fp.status # "ok" THEN fp.status
                 ELSE IF ip.status # "ok" THEN ip.status
                 ELSE IF res.raised THEN "ValueError" ELSE "ok",
      version |-> st.version,
      messages |-> IF st.status # "ok" THEN st.messages
                   ELSE IF fp.status # "ok" THEN st.messages \o fp.messages
                   ELSE st.messages \o fp.messages \o ip.messages
                        \o (IF ip.status = "ok" THEN res.messages
                            ELSE <<>>),
      individuals |-> res.individuals,
      families |-> res.families,
      sections |-> [ data |-> [ st.data EXCEPT ![SECT_INDI] = ip.section,
                                               ![SECT_FAM] = fp.section ],
                     unknown |-> st.unknown,
                     indi_order |-> ip.order ] ]

\* check_parsed_sections on the parsed sections
ReadFileChecked(st, fp, ip, settings) ==
    ReadFileResult(st, fp, ip,
        check_parsed_sections_in(ip.parsed, fp.parsed, settings,
                                 XrefLoopsOf(ip.order, fp.order)))

\* setup_parsed_sections on the document read: the families, then the
\* individuals
ReadFileParsed(st, settings) ==
    ReadFileChecked(st,
        ParseSection(IF st.status = "ok" THEN st.data[SECT_FAM] ELSE <<>>,
                     FALSE, settings.exit_on_bad_date),
        ParseSection(IF st.status = "ok" THEN st.data[SECT_INDI] ELSE <<>>,
                     TRUE, settings.exit_on_bad_date),
        settings)

\* the globals and the document after read_file
ReadFileReturnAs(r, settings, call) ==
    /\ run_settings' = settings
    /\ version' = r.version
    /\ all_messages' = r.messages
    /\ trace' = call
    /\ IF r.status = "ok"
       THEN /\ pc' = "returned"
            /\ individuals' = r.individuals
            /\ families' = r.families
            /\ sections' = r.sections
       ELSE /\ pc' = IF r.status = "crash" THEN "crashed" ELSE "raised"
            /\ UNCHANGED <<individuals, families, sections>>

ReadFileReturn(r, settings) ==
    ReadFileReturnAs(r, settings, [ op |-> "read_file" ])

\* read_file( datafile ) on one of the files: read_in_data, the header and
\* trailer checks, setup_parsed_sections, check_parsed_sections
PrivReadFile ==
    /\ pc = "start"
    /\ \E inf \in PrivFiles :
         ReadFileReturn(
             ReadFileParsed(
                 read_file_checks(read_in_data(inf, version, all_messages,
                                               DefaultSettings)),
                 DefaultSettings),
             DefaultSettings)
    /\ UNCHANGED outf

\* set_privatize_flag( data, years_since_death, max_lifetime ) on the
\* document returned
PrivSetFlag ==
    /\ pc = "returned"
    /\ \E now \in NowDates, years_since_death \in YearsSinceDeath,
          max_lifetime \in MaxLifetimes :
         LET res == set_privatize_flag(individuals, families,
                        sections.indi_order, now, years_since_death,
                        max_lifetime)
         IN  /\ individuals' = res.individuals
             /\ families' = res.families
             /\ pc' = IF res.status = "ok" THEN "flagged" ELSE "crashed"
             /\ trace' = [ op |-> "set_privatize_flag", now |-> now,
                           years_since_death |-> years_since_death,
                           max_lifetime |-> max_lifetime ]
    /\ UNCHANGED <<run_settings, version, all_messages, sections, outf>>

\* output_privatized( data, file ), with or without the levels set
PrivOutput ==
    /\ pc \in {"returned", "flagged"}
    /\ outf' = output_privatized(sections.data, sections.unknown,
                                 individuals, families)
    /\ pc' = "written"
    /\ trace' = [ op |-> "output_privatized" ]
    /\ UNCHANGED <<run_settings, version, all_messages, individuals,
                   families, sections>>

PrivNext == PrivReadFile \/ PrivSetFlag \/ PrivOutput

SpecPriv == XrefInit /\ [][PrivNext]_vars

----------------------------------------------------------------------------
(* Dates of a file: read_file with exit-on-bad-date set or not              *)

\* the date texts of the files: well formed, with a month or a year that
\* is valid once '-' and '.' are stripped, with a word that is not valid,
\* with more than three words, with the name of a calendar
DateTexts ==
    { "1 JAN 1990", "15 JUN 2020", "ABT 1950", "FEB 1890", "TO 1 JAN 1990",
      "BET 1 JAN 1890 AND 15 JUN 2020", "FROM 1990 TO 2 FEB 1991",
      "1 JAN. 1990", "1 JAN 19-90", "TO 1 JAN. 1990",
      "BET 1 JAN. 1890 AND 15 JUN 2020",
      "1 JAN -", "1 - 1990", "- JAN 1990", "32 JAN 1990", "1 FOO 1990",
      "1 JAN x", "1 JAN 1990 noon", "JULIAN 1 JAN 1990" }

\* an individual with a dated birth and, for a text that is not empty, a
\* dated death
DatesFile(birth, death) ==
    HeadRecord \o Indi1Start \o << Line(1, "BIRT", ""), DateLine(birth) >>
      \o (IF death = "" THEN <<>>
          ELSE << Line(1, "DEAT", ""), DateLine(death) >>)
      \o TrailerRecord

DatesSettings(exit_bad_date) ==
    [ DefaultSettings EXCEPT !.exit_on_bad_date = exit_bad_date ]

\* read_file( datafile, settings ) on one of these files
DatesReadFile ==
    /\ pc = "start"
    /\ \E birth \in DateTexts, death \in DateTexts \cup {""},
          exit_bad_date \in BOOLEAN :
         ReadFileReturnAs(
             ReadFileParsed(
                 read_file_checks(read_in_data(DatesFile(birth, death),
                                      version, all_messages,
                                      DatesSettings(exit_bad_date))),
                 DatesSettings(exit_bad_date)),
             DatesSettings(exit_bad_date),
             [ op |-> "read_file",
               texts |-> IF death = "" THEN <<birth>>
                         ELSE <<birth, death>> ])
    /\ UNCHANGED outf

DatesNext == DatesReadFile

SpecDates == XrefInit /\ [][DatesNext]_vars


----------------------------------------------------------------------------
(* The query engine: find_individuals with match_individual,                *)
(* existance_match and relation_search                                      *)

\* the operators of find_individuals after operation.lower().strip() and
\* alt_operators; "" for a text that fails the assert
OperatorOf(operation) ==
    CASE operation \in {"=", "!=", "<", "<=", ">", "=>", "in", "!in",
                        "exist", "!exist"} -> operation
      [] operation \in {"==", "is"} -> "="
      [] operation \in {"not", "is not", "<>"} -> "!="
      [] operation = ">=" -> "=>"
      [] operation = "not in" -> "!in"
      [] operation = "exists" -> "exist"
      [] operation \in {"not exist", "not exists"} -> "!exist"
      [] OTHER -> ""

\* search_tag.lower().strip(), split at the first '.', ALT_TAG and
\* ALT_SUBTAG applied: the tag and the sub-tag ("" for None)
SearchTagOf(search_tag) ==
    CASE search_tag \in {"birt.date", "birth.date", "born.date"}
                                  -> [ tag |-> "birt", subtag |-> "date" ]
      [] search_tag \in {"deat.date", "death.date"}
                                  -> [ tag |-> "deat", subtag |-> "date" ]
      [] search_tag = "buri.date" -> [ tag |-> "buri", subtag |-> "date" ]
      [] search_tag \in {"birt", "birth"} -> [ tag |-> "birt", subtag |-> "" ]
      [] search_tag \in {"parents of", "parents-of", "parents_of"}
                                  -> [ tag |-> "parentsof", subtag |-> "" ]
      [] search_tag \in {"partners of", "partners-of", "partners_of"}
                                  -> [ tag |-> "partnersof", subtag |-> "" ]
      [] search_tag \in {"children of", "children-of", "children_of"}
                                  -> [ tag |-> "childrenof", subtag |-> "" ]
      [] search_tag \in {"siblings of", "siblings-of", "siblings_of"}
                                  -> [ tag |-> "siblingsof", subtag |-> "" ]
      [] search_tag \in {"step-siblings of", "step-siblings-of",
                         "step-siblings_of"}
                                  -> [ tag |-> "step-siblingsof", subtag |-> "" ]
      [] OTHER -> [ tag |-> search_tag, subtag |-> "" ]

RelationTags ==
    {"partnersof", "parentsof", "childrenof", "siblingsof", "step-siblingsof"}

\* 'want in have' for the names of the model
Contains(have, want) ==
    \/ have = want
    \/ want = "Al" /\ have = "Alt"

\* the search values of eight digits, as numbers
DateNumber == ("18900101" :> 18900101) @@ ("19900101" :> 19900101)

\* compare( have, want, op ) of match_individual on two strings.  A date
\* value is a string of eight digits and the model holds it as a number:
\* the order of two such strings is the order of the numbers.  Names and
\* sex values are compared with =, !=, in, !in only.
compare(have, want, op) ==
    CASE op = "="   -> have = want
      [] op = "!="  -> have # want
      [] op = "<"   -> have < want
      [] op = "<="  -> have <= want
      [] op = ">"   -> have > want
      [] op = "=>"  -> have >= want
      [] op = "in"  -> Contains(have, want)
      [] op = "!in" -> ~Contains(have, want)
      [] OTHER -> FALSE

BestWhenNotAsked(indi_data, tag, only_best) ==
    IF ~only_best /\ tag \in DOMAIN indi_data.best_events
    THEN { indi_data.best_events[tag] + 1 }
    ELSE 1..Len(indi_data.out_data[tag])

AllIndexes(indi_data, tag, only_best) == 1..Len(indi_data.out_data[tag])

\* search_indexes of an event tag: the best one alone when only_best is
\* set and a best index is recorded for the tag, else all of them
\* (positions count from 1)
SearchIndexes(indi_data, tag, only_best) ==
    IF only_best /\ tag \in DOMAIN indi_data.best_events
    THEN { indi_data.best_events[tag] + 1 }
    ELSE 1..Len(indi_data.out_data[tag])

\* find_best( tag ): indi_data[BEST_EVENT_KEY].get( tag, 0 )
find_best(indi_data, tag) ==
    IF tag \in DOMAIN indi_data.best_events THEN indi_data.best_events[tag]
    ELSE 0

\* compare_name: a name of the model has no sub-tag keys
compare_name(name, subtag, search_value, op) ==
    subtag = "" /\ compare(name, search_value, op)

\* the value of an event compared: the minimum date when the date is
\* known; no value (None) otherwise.  (A date is searched with a value of
\* eight digits.)
EventMatches(event, subtag, search_value, op) ==
    /\ subtag = "date"
    /\ event.has_date
    /\ event.date.is_known
    /\ search_value \in DOMAIN DateNumber
    /\ compare(event.date.min.value, DateNumber[search_value], op)

\* match_individual( indi_data, tag, subtag, search_value, operation,
\* only_best ) for a tag the individual has
match_individual(indi_data, tag, subtag, search_value, op, only_best) ==
    IF tag = "name"
    THEN IF only_best
         THEN compare_name(indi_data.values[tag][find_best(indi_data, tag) + 1],
                           subtag, search_value, op)
         ELSE \E k \in 1..Len(indi_data.values[tag]) :
                compare_name(indi_data.values[tag][k], subtag, search_value,
                             op)
    ELSE IF tag \in {"fams", "famc"}
    THEN \E k \in 1..Len(indi_data[tag]) :
           compare(indi_data[tag][k], search_value, op)
    ELSE IF tag \in INDI_EVENT_TAGS
    THEN /\ subtag # ""
         /\ \E k \in SearchIndexes(indi_data, tag, only_best) :
              EventMatches(indi_data.out_data[tag][k], subtag, search_value,
                           op)
    ELSE \E k \in (IF only_best /\ tag \in DOMAIN indi_data.best_events
                   THEN { indi_data.best_events[tag] + 1 }
                   ELSE 1..Len(indi_data.values[tag])) :
           compare(indi_data.values[tag][k], search_value, op)

SubtagPresent(event, subtag) == subtag # "date" \/ event.has_date

\* existance_match, the test of one event: the sub-tag is there, and for
\* 'date' the date structure is a known date
SubtagExists(event, subtag) ==
    IF subtag = "date" THEN event.has_date /\ event.date.is_known
    ELSE FALSE      \* the events of the model keep no other sub-tag

\* existance_match( individual, tag, subtag ) for the event tags
existance_match(indi_data, tag, subtag, only_best) ==
    /\ tag \in indi_data.keys
    /\ \/ subtag = ""
       \/ \E k \in SearchIndexes(indi_data, tag, only_best) :
            SubtagExists(indi_data.out_data[tag][k], subtag)

\* the individuals of a list that pass a test, in the order of the list
RECURSIVE Selected(_, _)
Selected(order, chosen) ==
    IF order = <<>> THEN <<>>
    ELSE (IF Head(order) \in chosen THEN <<Head(order)>> ELSE <<>>)
           \o Selected(Tail(order), chosen)

\* value_search: the individuals in the order of data[PARSED_INDI]
value_search(indis, order, tag, subtag, search_value, op, only_best) ==
    IF op = "exist"
    THEN Selected(order, { x \in DOMAIN indis :
                             existance_match(indis[x], tag, subtag,
                                             only_best) })
    ELSE IF op = "!exist"
    THEN Selected(order, { x \in DOMAIN indis :
                             ~existance_match(indis[x], tag, subtag,
                                              only_best) })
    ELSE Selected(order, { x \in DOMAIN indis :
                             /\ tag \in indis[x].keys
                             /\ match_individual(indis[x], tag, subtag,
                                    search_value, op, only_best) })

\* the special case of find_individuals: birt or deat without a sub-tag,
\* an operation that is not an existence test and a value of eight digits
\* (the date values of the model are the values of eight digits)
SubtagForEveryEvent(st, search_value, op) ==
    IF st.subtag = "" /\ st.tag \in INDI_EVENT_TAGS
       /\ op \notin {"exist", "!exist"}
       /\ search_value \in DOMAIN DateNumber
    THEN "date" ELSE st.subtag

SubtagFor(st, search_value, op) ==
    IF st.subtag = "" /\ st.tag \in {"birt", "deat"}
       /\ op \notin {"exist", "!exist"}
       /\ search_value \in DOMAIN DateNumber
    THEN "date" ELSE st.subtag

\* Bound: level-1 blocks of the first individual of a queried file
MaxFindBlocks == 2

\* the level-1 blocks of the first individual: a second name, sex lines,
\* births and deaths with a date, a place only, a proof marker, a burial
NameAlt       == << Line(1, "NAME", "Alt") >>
SexM          == << Line(1, "SEX", "M") >>
SexF          == << Line(1, "SEX", "F") >>
BirtProven    == << Line(1, "BIRT", ""), DateLine("1 JAN 1990"),
                    Line(2, "_PROOF", "proven") >>
BirtDisproven == << Line(1, "BIRT", ""), DateLine("1 JAN 1990"),
                    Line(2, "_PROOF", "disproven") >>
BirtPlace     == << Line(1, "BIRT", ""), Line(2, "PLAC", "p") >>
DeatPlace     == << Line(1, "DEAT", ""), Line(2, "PLAC", "p") >>

FindBlocks ==
    { NameAlt, SexM, SexF, BirtOld, BirtProven, BirtDisproven, BirtPlace,
      DeatOld, DeatPlace, BuriOld }

\* the files queried: the first individual with up to MaxFindBlocks blocks,
\* the second with a dated birth
FindFiles ==
    { HeadRecord \o Indi1Start \o Flatten(blocks) \o Indi2Start \o BirtOld
        \o TrailerRecord : blocks \in SeqsUpTo(FindBlocks, MaxFindBlocks) }

\* the searches made: search_tag, search_value and operation
Search(search_tag, search_value, operation) ==
    [ search_tag |-> search_tag, search_value |-> search_value,
      operation |-> operation ]
FindSearches ==
    { Search("name", "Alt", "="), Search("name", "a", "!="),
      Search("name", "Al", "in"), Search("name", "Alt", "not in"),
      Search("sex", "F", "="), Search("sex", "M", "is not"),
      Search("birt", "x", "!=") }
    \cup { Search(t, v, o) :
             t \in {"birt.date", "birth.date", "birt"},
             v \in {"18900101", "19900101"}, o \in {"=", "!=", "<", ">="} }
    \cup { Search(t, "", o) :
             t \in {"birt.date", "deat.date", "death.date"},
             o \in {"exist", "!exist", "not exist"} }
    \cup { Search(t, v, o) :
             t \in {"buri", "deat"}, v \in {"19900101", "1990", "x"},
             o \in {"=", "!="} }
    \cup { Search(t, "", o) :
             t \in {"birt", "buri"}, o \in {"exist", "!exist"} }
    \cup { Search("birt", "1990", "="), Search("buri.date", "19900101", "=") }

\* read_file( datafile ) on one of these files
FindReadFile ==
    /\ pc = "start"
    /\ \E inf \in FindFiles :
         ReadFileReturn(
             ReadFileParsed(
                 read_file_checks(read_in_data(inf, version, all_messages,
                                               DefaultSettings)),
                 DefaultSettings),
             DefaultSettings)
    /\ UNCHANGED outf

\* find_individuals( data, search_tag, search_value, operation, only_best )
\* for a value search, q holding the tag and the sub-tag of the search
FindResult(indis, order, q, search, only_best) ==
    value_search(indis, order, q.tag,
                 SubtagFor(q, search.search_value,
                           OperatorOf(search.operation)),
                 search.search_value, OperatorOf(search.operation), only_best)

FindIndividuals ==
    /\ pc = "returned"
    /\ \E search \in FindSearches, only_best \in BOOLEAN :
         trace' = [ op |-> "find_individuals", search |-> search,
                    only_best |-> only_best,
                    result |-> FindResult(individuals, sections.indi_order,
                                          SearchTagOf(search.search_tag),
                                          search, only_best) ]
    /\ pc' = "found"
    /\ UNCHANGED <<run_settings, version, all_messages, individuals,
                   families, sections, outf>>

FindNext == FindReadFile \/ FindIndividuals

SpecFind == XrefInit /\ [][FindNext]_vars

----------------------------------------------------------------------------
(* The query engine: relation_search on the family links                    *)

\* the list built so far and the exception that ended the search ("" while
\* none was raised)
NoResult == [ result |-> <<>>, raised |-> "" ]

\* get_families_of( person, fam_key )
get_families_of(indis, person, fam_key) ==
    IF fam_key \in indis[person].keys THEN indis[person][fam_key] ELSE <<>>

\* parentsof, the body of "for partner in ['husb','wife']":
\* result.append( data[PARSED_FAM][fam][partner][0] )
parents_step(st, fams, fam, partner) ==
    IF st.raised # "" THEN st
    ELSE IF fam \notin DOMAIN fams THEN [ st EXCEPT !.raised = "KeyError" ]
    ELSE IF partner \notin fams[fam].keys THEN st
    ELSE IF fams[fam][partner] = <<>>
         THEN [ st EXCEPT !.raised = "IndexError" ]
    ELSE [ st EXCEPT !.result = Append(@, fams[fam][partner][1]) ]

\* partnersof, the same body with "if partner_id != search_value"
partners_step(st, fams, fam, partner, search_value) ==
    IF st.raised # "" THEN st
    ELSE IF fam \notin DOMAIN fams THEN [ st EXCEPT !.raised = "KeyError" ]
    ELSE IF partner \notin fams[fam].keys THEN st
    ELSE IF fams[fam][partner] = <<>>
         THEN [ st EXCEPT !.raised = "IndexError" ]
    ELSE IF fams[fam][partner][1] = search_value THEN st
    ELSE [ st EXCEPT !.result = Append(@, fams[fam][partner][1]) ]

\* childrenof, the body of "for fam in get_families( 'fams' )"
children_step(st, fams, fam) ==
    IF st.raised # "" THEN st
    ELSE IF fam \notin DOMAIN fams THEN [ st EXCEPT !.raised = "KeyError" ]
    ELSE [ st EXCEPT !.result = @ \o fams[fam].chil ]

\* siblingsof, the loop over the children of one family: a child other
\* than search_value is appended once for every entry of famc that is fam
OtherChildren(chil, famc, fam, search_value) ==
    LET n == Cardinality({ j \in 1..Len(famc) : famc[j] = fam })
        G[k \in 0..Len(chil)] ==
          IF k = 0 THEN <<>>
          ELSE IF chil[k] = search_value THEN G[k-1]
               ELSE G[k-1] \o [ j \in 1..n |-> chil[k] ]
    IN  G[Len(chil)]

siblings_step(st, fams, fam, famc, search_value) ==
    IF st.raised # "" THEN st
    ELSE IF fam \notin DOMAIN fams THEN [ st EXCEPT !.raised = "KeyError" ]
    ELSE [ st EXCEPT !.result =
             @ \o OtherChildren(fams[fam].chil, famc, fam, search_value) ]

\* step-siblingsof, the body of "for parent_fam in get_families_of(
\* parent_id, 'fams' )"
parent_fam_step(st, fams, fam, parent_fam) ==
    IF st.raised # "" \/ fam = parent_fam THEN st
    ELSE IF parent_fam \notin DOMAIN fams
         THEN [ st EXCEPT !.raised = "KeyError" ]
    ELSE [ st EXCEPT !.result = @ \o fams[parent_fam].chil ]

ParentFamLoop(st, fams, fam, parent_fams) ==
    LET F[k \in 0..Len(parent_fams)] ==
          IF k = 0 THEN st
          ELSE parent_fam_step(F[k-1], fams, fam, parent_fams[k])
    IN  F[Len(parent_fams)]

\* step-siblingsof, the body of "for parent in ['wife','husb']"
step_siblings_step(st, indis, fams, fam, parent) ==
    IF st.raised # "" THEN st
    ELSE IF fam \notin DOMAIN fams THEN [ st EXCEPT !.raised = "KeyError" ]
    ELSE IF parent \notin fams[fam].keys THEN st
    ELSE IF fams[fam][parent] = <<>>
         THEN [ st EXCEPT !.raised = "IndexError" ]
    ELSE IF fams[fam][parent][1] \notin DOMAIN indis
         THEN [ st EXCEPT !.raised = "KeyError" ]
    ELSE ParentFamLoop(st, fams, fam,
                       get_families_of(indis, fams[fam][parent][1], "fams"))

\* the five branches of relation_search, each over the families of
\* search_value
parentsof(fams, famc) ==
    LET F[k \in 0..2 * Len(famc)] ==
          IF k = 0 THEN NoResult
          ELSE parents_step(F[k-1], fams, famc[(k + 1) \div 2],
                            IF k % 2 = 1 THEN "husb" ELSE "wife")
    IN  F[2 * Len(famc)]

childrenof(fams, fams_of) ==
    LET F[k \in 0..Len(fams_of)] ==
          IF k = 0 THEN NoResult
          ELSE children_step(F[k-1], fams, fams_of[k])
    IN  F[Len(fams_of)]

partnersof(fams, fams_of, search_value) ==
    LET F[k \in 0..2 * Len(fams_of)] ==
          IF k = 0 THEN NoResult
          ELSE partners_step(F[k-1], fams, fams_of[(k + 1) \div 2],
                             IF k % 2 = 1 THEN "husb" ELSE "wife",
                             search_value)
    IN  F[2 * Len(fams_of)]

siblingsof(fams, famc, search_value) ==
    LET F[k \in 0..Len(famc)] ==
          IF k = 0 THEN NoResult
          ELSE siblings_step(F[k-1], fams, famc[k], famc, search_value)
    IN  F[Len(famc)]

step_siblingsof(indis, fams, famc) ==
    LET F[k \in 0..2 * Len(famc)] ==
          IF k = 0 THEN NoResult
          ELSE step_siblings_step(F[k-1], indis, fams, famc[(k + 1) \div 2],
                                  IF k % 2 = 1 THEN "wife" ELSE "husb")
    IN  F[2 * Len(famc)]

\* relation_search(): the list and the exception that ended it, if any
relation_search(indis, fams, search_tag, search_value) ==
    IF search_value \notin DOMAIN indis THEN NoResult
    ELSE CASE search_tag = "parentsof" ->
                parentsof(fams, get_families_of(indis, search_value, "famc"))
           [] search_tag = "childrenof" ->
                childrenof(fams, get_families_of(indis, search_value, "fams"))
           [] search_tag = "partnersof" ->
                partnersof(fams, get_families_of(indis, search_value, "fams"),
                           search_value)
           [] search_tag = "siblingsof" ->
                siblingsof(fams, get_families_of(indis, search_value, "famc"),
                           search_value)
           [] search_tag = "step-siblingsof" ->
                step_siblingsof(indis, fams,
                                get_families_of(indis, search_value, "famc"))
           [] OTHER -> NoResult

\* The files searched: individuals i1 to i4 and families f1 and f2.  A
\* family names i1 or i9 (no record of the file) as husband, i2 as wife
\* and i3 and i4 as children; every individual carries the FAMS and FAMC
\* lines that answer the families' lines.
RelIndiOrder == <<"i1", "i2", "i3", "i4">>
RelFamOrder  == <<"f1", "f2">>

RelChildLines ==
    { <<>>, << <<"chil", "i3">> >>, << <<"chil", "i4">> >>,
      << <<"chil", "i3">>, <<"chil", "i4">> >> }

RelFamLines ==
    { h \o w \o c :
        h \in { <<>>, << <<"husb", "i1">> >>, << <<"husb", "i9">> >> },
        w \in { <<>>, << <<"wife", "i2">> >> },
        c \in RelChildLines }

\* the FAMS and FAMC lines of individual p, in the order of the families
RelIndiLines(p, flines) ==
    LET F[k \in 0..Len(RelFamOrder)] ==
          IF k = 0 THEN <<>>
          ELSE F[k-1]
               \o (IF \E j \in 1..Len(flines[RelFamOrder[k]]) :
                        /\ flines[RelFamOrder[k]][j][1] \in {"husb", "wife"}
                        /\ flines[RelFamOrder[k]][j][2] = p
                   THEN << <<"fams", RelFamOrder[k]>> >> ELSE <<>>)
               \o (IF <<"chil", p>> \in Range(flines[RelFamOrder[k]])
                   THEN << <<"famc", RelFamOrder[k]>> >> ELSE <<>>)
    IN  F[Len(RelFamOrder)]

\* the persons asked about (i7 is in no file) and the operations passed
RelPersons    == {"i1", "i2", "i3", "i4", "i7"}
RelSearchTags == RelationTags \cup {"parents-of", "step-siblings of"}
RelOperations == {"=", "exist", ">=", "not in"}

\* read_file( datafile ) with the default settings
RelReadFile ==
    /\ pc = "start"
    /\ \E flines \in [ Range(RelFamOrder) -> RelFamLines ] :
       \E a \in parse_individual(RelIndiLines("i1", flines)),
          b \in parse_individual(RelIndiLines("i2", flines)),
          c \in parse_individual(RelIndiLines("i3", flines)),
          d \in parse_individual(RelIndiLines("i4", flines)) :
         LET res == check_parsed_sections_in(
                        ("i1" :> a) @@ ("i2" :> b) @@ ("i3" :> c) @@ ("i4" :> d),
                        [ f \in Range(RelFamOrder) |-> parse_family(flines[f]) ],
                        DefaultSettings,
                        XrefLoopsOf(RelIndiOrder, RelFamOrder))
         IN  /\ individuals' = res.individuals
             /\ families' = res.families
             /\ all_messages' = all_messages \o res.messages
             /\ trace' = [ op |-> "read_file", flines |-> flines ]
    /\ pc' = "returned"
    /\ UNCHANGED <<run_settings, version, sections, outf>>

\* find_individuals( data, search_tag, search_value, operation, only_best )
\* with a relation tag
RelFind ==
    /\ pc = "returned"
    /\ \E search_tag \in RelSearchTags, search_value \in RelPersons,
          operation \in RelOperations, only_best \in BOOLEAN :
         LET r == IF OperatorOf(operation) = ""
                  THEN [ result |-> <<>>, raised |-> "AssertionError" ]
                  ELSE relation_search(individuals, families,
                                       SearchTagOf(search_tag).tag,
                                       search_value)
         IN  /\ trace' = [ op |-> "find_individuals",
                           search |-> Search(search_tag, search_value,
                                             operation),
                           only_best |-> only_best,
                           result |-> r.result, raised |-> r.raised ]
             /\ pc' = IF r.raised = "" THEN "found" ELSE "crashed"
    /\ UNCHANGED <<run_settings, version, all_messages, individuals,
                   families, sections, outf>>

RelNext == RelReadFile \/ RelFind

SpecRel == XrefInit /\ [][RelNext]_vars

----------------------------------------------------------------------------
(* Loop detection and the descendant count                                  *)

\* every <<individual, family>> of the lists under tag, in the order of the
\* loops "for indi in data[i_key]: if tag in ...: for fam in ...[tag]"
LinksOf(indis, order, tag) ==
    LET F[k \in 0..Len(order)] ==
          IF k = 0 THEN <<>>
          ELSE F[k-1] \o [ j \in 1..Len(get_families_of(indis, order[k], tag))
                           |-> <<order[k],
                                 get_families_of(indis, order[k], tag)[j]>> ]
    IN  F[Len(order)]

\* the outcome of a check: its result and the exception that ended it
NoLoop == [ result |-> FALSE, raised |-> "" ]

\* check_partners, the body of "for partner in ['wife','husb']"
partners_append(st, fams, fam, partner) ==
    IF st.raised # "" THEN st
    ELSE IF fam \notin DOMAIN fams THEN [ st EXCEPT !.raised = "KeyError" ]
    ELSE IF partner \notin fams[fam].keys THEN st
    ELSE IF fams[fam][partner] = <<>>
         THEN [ st EXCEPT !.raised = "IndexError" ]
    ELSE [ st EXCEPT !.partners = Append(@, fams[fam][partner][1]) ]

\* check_partners, the body of "for fam in data[i_key][indi][tag]"
partners_test(st, p) ==
    IF st.raised # "" THEN st
    ELSE IF p.raised # "" THEN [ st EXCEPT !.raised = p.raised ]
    ELSE IF Len(p.partners) = 2 /\ p.partners[1] = p.partners[2]
         THEN [ st EXCEPT !.result = TRUE ]
    ELSE st

check_partners(indis, fams, order) ==
    LET links == LinksOf(indis, order, "fams")
        F[k \in 0..Len(links)] ==
          IF k = 0 THEN NoLoop
          ELSE partners_test(F[k-1],
                 partners_append(
                   partners_append([ partners |-> <<>>, raised |-> "" ],
                                   fams, links[k][2], "wife"),
                   fams, links[k][2], "husb"))
    IN  F[Len(links)]

\* check_siblings, the body of "for fam in data[i_key][indi][tag]"
siblings_test(st, fams, indi, fam) ==
    IF st.raised # "" THEN st
    ELSE IF fam \notin DOMAIN fams THEN [ st EXCEPT !.raised = "KeyError" ]
    ELSE IF Cardinality({ j \in 1..Len(fams[fam].chil) :
                            fams[fam].chil[j] = indi }) > 1
         THEN [ st EXCEPT !.result = TRUE ]
    ELSE st

check_siblings(indis, fams, order) ==
    LET links == LinksOf(indis, order, "famc")
        F[k \in 0..Len(links)] ==
          IF k = 0 THEN NoLoop
          ELSE siblings_test(F[k-1], fams, links[k][1], links[k][2])
    IN  F[Len(links)]

\* check_self_ancestor( start_indi, fam, path, all_loopers ).  st holds
\* all_loopers, the exception raised, and result: every caller only ors the
\* result of a call into its own, so one result is carried along.
RECURSIVE check_self_ancestor(_, _, _, _, _, _)
RECURSIVE ancestor_fams(_, _, _, _, _, _)
RECURSIVE ancestor_partner(_, _, _, _, _, _, _)

\* the body of "for partner_type in ['wife','husb']"
ancestor_partner(indis, fams, start_indi, fam, path, st, partner_type) ==
    IF st.raised # "" THEN st
    ELSE IF fam \notin DOMAIN fams THEN [ st EXCEPT !.raised = "KeyError" ]
    ELSE IF partner_type \notin fams[fam].keys THEN st
    ELSE IF fams[fam][partner_type] = <<>>
         THEN [ st EXCEPT !.raised = "IndexError" ]
    ELSE IF fams[fam][partner_type][1] \in Range(st.all_loopers) THEN st
    ELSE IF fams[fam][partner_type][1] \in Range(path)
         THEN IF fams[fam][partner_type][1] = start_indi
              THEN [ st EXCEPT !.result = TRUE,
                               !.all_loopers = @ \o path ]
              ELSE st
    ELSE IF fams[fam][partner_type][1] \notin DOMAIN indis
         THEN [ st EXCEPT !.raised = "KeyError" ]
    ELSE ancestor_fams(indis, fams, start_indi,
                       get_families_of(indis, fams[fam][partner_type][1],
                                       "famc"),
                       Append(path, fams[fam][partner_type][1]), st)

\* "for parent_fam in data[i_key][partner]['famc']", and the same loop of
\* check_ancestors over the famc of indi
ancestor_fams(indis, fams, start_indi, famc, path, st) ==
    IF famc = <<>> THEN st
    ELSE ancestor_fams(indis, fams, start_indi, Tail(famc), path,
                       check_self_ancestor(indis, fams, start_indi,
                                           Head(famc), path, st))

check_self_ancestor(indis, fams, start_indi, fam, path, st) ==
    ancestor_partner(indis, fams, start_indi, fam, path,
                     ancestor_partner(indis, fams, start_indi, fam, path, st,
                                      "wife"),
                     "husb")

\* check_ancestors, the body of "for indi in data[i_key]"
ancestors_step(st, indis, fams, indi) ==
    IF st.raised # "" \/ indi \in Range(st.all_loopers) THEN st
    ELSE ancestor_fams(indis, fams, indi,
                       get_families_of(indis, indi, "famc"), <<indi>>, st)

check_ancestors(indis, fams, order) ==
    LET F[k \in 0..Len(order)] ==
          IF k = 0
          THEN [ result |-> FALSE, all_loopers |-> <<>>, raised |-> "" ]
          ELSE ancestors_step(F[k-1], indis, fams, order[k])
    IN  F[Len(order)]

\* the three checks in turn; an exception of one ends the call
loops_after(a, b) ==
    IF a.raised # "" THEN [ result |-> FALSE, raised |-> a.raised ]
    ELSE IF b.raised # "" THEN [ result |-> FALSE, raised |-> b.raised ]
    ELSE [ result |-> a.result \/ b.result, raised |-> "" ]

\* detect_loops( data, print_report )
detect_loops(indis, fams, order) ==
    loops_after(loops_after(check_partners(indis, fams, order),
                            check_siblings(indis, fams, order)),
                check_ancestors(indis, fams, order))

\* get_indi_descendant_count( indi, individuals, families, counts ).  The
\* call of an individual that is still being counted (it is on the stack of
\* calls and has no entry in counts yet) repeats the calls made since, without
\* end: the interpreter ends it with RecursionError.
RECURSIVE get_indi_descendant_count(_, _, _, _, _)
RECURSIVE count_children(_, _, _, _, _)
RECURSIVE count_families(_, _, _, _, _)

Max(a, b) == IF a > b THEN a ELSE b

\* "n_child += 1", "n_desc += 1 + counts[child][1]", "n_gen = max( ... )"
count_add(acc, child) ==
    [ acc EXCEPT !.n_child = @ + 1,
                 !.n_desc = @ + 1 + acc.counts[child][2],
                 !.n_gen = Max(@, acc.counts[child][3]) ]

\* "counts[child] = get_indi_descendant_count( child, ... )"
count_store(acc, child, r) ==
    IF r.raised # "" THEN [ acc EXCEPT !.raised = r.raised ]
    ELSE count_add([ acc EXCEPT !.counts = (child :> r.value) @@ r.counts ],
                   child)

\* the body of "for child in families[fam]['chil']"
count_child(acc, indis, fams, child, stack) ==
    IF acc.raised # "" THEN acc
    ELSE IF child \in DOMAIN acc.counts THEN count_add(acc, child)
    ELSE IF child \in Range(stack)
         THEN [ acc EXCEPT !.raised = "RecursionError" ]
    ELSE IF child \notin DOMAIN indis THEN [ acc EXCEPT !.raised = "KeyError" ]
    ELSE count_store(acc, child,
                     get_indi_descendant_count(child, indis, fams, acc.counts,
                                               Append(stack, child)))

count_children(acc, indis, fams, chil, stack) ==
    IF chil = <<>> THEN acc
    ELSE count_children(count_child(acc, indis, fams, Head(chil), stack),
                        indis, fams, Tail(chil), stack)

\* "for fam in individuals[indi]['fams']"
count_families(acc, indis, fams, fams_of, stack) ==
    IF fams_of = <<>> \/ acc.raised # "" THEN acc
    ELSE IF Head(fams_of) \notin DOMAIN fams
         THEN [ acc EXCEPT !.raised = "KeyError" ]
    ELSE count_families(count_children(acc, indis, fams,
                                       fams[Head(fams_of)].chil, stack),
                        indis, fams, Tail(fams_of), stack)

\* "if n_child > 0: n_gen += 1" and the return
count_return(acc) ==
    [ counts |-> acc.counts, raised |-> acc.raised,
      value |-> <<acc.n_child, acc.n_desc,
                  IF acc.n_child > 0 THEN acc.n_gen + 1 ELSE acc.n_gen>> ]

get_indi_descendant_count(indi, indis, fams, counts, stack) ==
    count_return(
        count_families([ counts |-> counts, raised |-> "", n_child |-> 0,
                         n_desc |-> 0, n_gen |-> 0 ],
                       indis, fams, get_families_of(indis, indi, "fams"),
                       stack))

\* report_all_descendant_count, the body of "for indi in data[PARSED_INDI]"
report_step(st, indi, r) ==
    IF r.raised # "" THEN [ st EXCEPT !.raised = r.raised ]
    ELSE [ st EXCEPT !.counts = (indi :> r.value) @@ r.counts ]

\* report_all_descendant_count( data ): the counts printed, or the
\* exception that ended it
report_all_descendant_count(indis, fams, order) ==
    LET F[k \in 0..Len(order)] ==
          IF k = 0 THEN [ counts |-> <<>>, raised |-> "" ]
          ELSE IF F[k-1].raised # "" \/ order[k] \in DOMAIN F[k-1].counts
               THEN F[k-1]
               ELSE report_step(F[k-1], order[k],
                       get_indi_descendant_count(order[k], indis, fams,
                                                 F[k-1].counts, <<order[k]>>))
    IN  F[Len(order)]

\* The files checked: individuals i1 to i3 and families f1 and f2.  A
\* family names one of them or i9 (no record of the file) as husband or
\* wife and some of them as children; the individuals carry the FAMS and
\* the FAMC lines that answer the families' lines, or the file leaves the
\* lines of one kind out.
LoopIndiOrder == <<"i1", "i2", "i3">>
LoopFamOrder  == <<"f1", "f2">>

LoopChildLines ==
    { <<>>, << <<"chil", "i1">> >>, << <<"chil", "i2">> >>,
      << <<"chil", "i3">> >>, << <<"chil", "i2">>, <<"chil", "i2">> >>,
      << <<"chil", "i2">>, <<"chil", "i3">> >> }

LoopFamLines ==
    { h \o w \o c :
        h \in { <<>>, << <<"husb", "i1">> >>, << <<"husb", "i2">> >>,
                << <<"husb", "i9">> >> },
        w \in { <<>>, << <<"wife", "i1">> >>, << <<"wife", "i3">> >> },
        c \in LoopChildLines }

\* the FAMS and FAMC lines of individual p
LoopIndiLines(p, flines, with_fams, with_famc) ==
    LET F[k \in 0..Len(LoopFamOrder)] ==
          IF k = 0 THEN <<>>
          ELSE F[k-1]
               \o (IF with_fams
                      /\ \E j \in 1..Len(flines[LoopFamOrder[k]]) :
                           /\ flines[LoopFamOrder[k]][j][1] \in {"husb", "wife"}
                           /\ flines[LoopFamOrder[k]][j][2] = p
                   THEN << <<"fams", LoopFamOrder[k]>> >> ELSE <<>>)
               \o (IF with_famc
                      /\ <<"chil", p>> \in Range(flines[LoopFamOrder[k]])
                   THEN << <<"famc", LoopFamOrder[k]>> >> ELSE <<>>)
    IN  F[Len(LoopFamOrder)]

\* read_file( datafile ) with the default settings
LoopReadFile ==
    /\ pc = "start"
    /\ \E flines \in [ Range(LoopFamOrder) -> LoopFamLines ],
          with_fams \in BOOLEAN, with_famc \in BOOLEAN :
       \E a \in parse_individual(LoopIndiLines("i1", flines, with_fams, with_famc)),
          b \in parse_individual(LoopIndiLines("i2", flines, with_fams, with_famc)),
          c \in parse_individual(LoopIndiLines("i3", flines, with_fams, with_famc)) :
         LET res == check_parsed_sections_in(
                        ("i1" :> a) @@ ("i2" :> b) @@ ("i3" :> c),
                        [ f \in Range(LoopFamOrder) |-> parse_family(flines[f]) ],
                        DefaultSettings,
                        XrefLoopsOf(LoopIndiOrder, LoopFamOrder))
         IN  /\ individuals' = res.individuals
             /\ families' = res.families
             /\ all_messages' = all_messages \o res.messages
             /\ trace' = [ op |-> "read_file", flines |-> flines ]
    /\ pc' = "returned"
    /\ UNCHANGED <<run_settings, version, sections, outf>>

\* detect_loops( data )
DetectLoops ==
    /\ pc = "returned"
    /\ trace' = [ op |-> "detect_loops" ]
                @@ detect_loops(individuals, families, LoopIndiOrder)
    /\ pc' = "detected"
    /\ UNCHANGED <<run_settings, version, all_messages, individuals,
                   families, sections, outf>>

\* report_all_descendant_count( data )
ReportAllDescendantCount ==
    /\ pc \in {"returned", "detected"}
    /\ trace' = [ op |-> "report_all_descendant_count" ]
                @@ report_all_descendant_count(individuals, families,
                                               LoopIndiOrder)
    /\ pc' = "counted"
    /\ UNCHANGED <<run_settings, version, all_messages, individuals,
                   families, sections, outf>>

LoopNext == LoopReadFile \/ DetectLoops \/ ReportAllDescendantCount

SpecLoops == XrefInit /\ [][LoopNext]_vars

----------------------------------------------------------------------------
(* Birth families: the relation tags and setup_birth_families               *)

\* Bound: level-1 lines given to the first individual and the first family
MaxBirthLines == 2

BirthIndiOrder == <<"i1", "i2">>
BirthFamOrder  == <<"f1", "f2">>

\* str.lower() on the relation words of the inputs
LowerWord(value) ==
    CASE value = "Birth" -> "birth" [] value = "HUSB" -> "husb"
      [] OTHER -> value

\* value.startswith( 'birt' ) on those words
StartsWithBirt(value) == value \in {"birt", "birth"}

\* the lines of individual i1, <<tag, family, word>>: 1 FAMC with the word
\* of its 2 PEDI line, or an event 1 ADOP / 1 BIRT with a 2 FAMC line and,
\* for ADOP, the word of the 3 ADOP line ("": no such line)
BirthIndiLineSet ==
    { <<"famc", "f1", "">>, <<"famc", "f1", "adopted">>,
      <<"famc", "f1", "Birth">>, <<"famc", "f2", "">>,
      <<"adop", "f1", "HUSB">>, <<"birt", "f1", "">> }

\* the lines of family f1, <<"chil", individual, word of 2 _FREL, word of
\* 2 _MREL>>
BirthFamLineSet ==
    { <<"chil", "i1", "", "">>, <<"chil", "i1", "adopted", "">>,
      <<"chil", "i1", "Birth", "birth">>, <<"chil", "i2", "", "">> }

\* a dict with one more item
SetItem(dict, key, value) == (key :> value) @@ dict

\* the famc the event lines add to out_data['famc'] (handle_birth_into)
IndiLinkLines(lines) ==
    [ k \in 1..Len(lines) |->
        << IF lines[k][1] \in {"adop", "birt", "chr"} THEN "famc"
           ELSE lines[k][1], lines[k][2] >> ]

\* handle_birth_into: the name given to the event
IntoName(tag) ==
    CASE tag = "adop" -> "adopted" [] tag = "birt" -> "birth"
      [] tag = "chr" -> "chistened" [] OTHER -> tag

\* handle_pedigree_tag and handle_birth_into: relation_data after a line
relation_step(relation_data, line) ==
    IF line[1] = "famc"
    THEN IF line[3] = "" THEN relation_data
         ELSE SetItem(relation_data, line[2],
                      [ value |-> LowerWord(line[3]), parent |-> "both" ])
    ELSE IF line[1] \in {"adop", "birt", "chr"}
    THEN SetItem(relation_data, line[2],
                 [ value |-> IntoName(line[1]),
                   parent |-> IF line[1] = "adop" /\ line[3] # ""
                              THEN LowerWord(line[3]) ELSE "both" ])
    ELSE relation_data

\* parse_individual: the relation_data of the record
indi_relations(lines) ==
    LET F[k \in 0..Len(lines)] ==
          IF k = 0 THEN NoDocument ELSE relation_step(F[k-1], lines[k])
    IN  F[Len(lines)]

\* rel[child][parent] = value
SetRel(rel, child, parent, value) ==
    SetItem(rel, child,
            SetItem(IF child \in DOMAIN rel THEN rel[child] ELSE NoDocument,
                    parent, value))

\* handle_child_item on one 1 CHIL line
handle_child_item(rel, line) ==
    IF line[1] # "chil" THEN rel
    ELSE IF line[3] # "" /\ line[4] # ""
    THEN SetRel(SetRel(rel, line[2], "husb", LowerWord(line[3])),
                line[2], "wife", LowerWord(line[4]))
    ELSE IF line[3] # "" THEN SetRel(rel, line[2], "husb", LowerWord(line[3]))
    ELSE IF line[4] # "" THEN SetRel(rel, line[2], "wife", LowerWord(line[4]))
    ELSE rel

\* parse_family: the 'rel' dict of the record
family_rel(lines) ==
    LET F[k \in 0..Len(lines)] ==
          IF k = 0 THEN NoDocument ELSE handle_child_item(F[k-1], lines[k])
    IN  F[Len(lines)]

\* setup_relationship, add_parent: existing values are left as they are
add_parent(rel, indi, parent, value) ==
    IF indi \in DOMAIN rel /\ parent \in DOMAIN rel[indi] THEN rel
    ELSE SetRel(rel, indi, parent, value)

setup_relationship(rel, indi, relationship) ==
    IF relationship.parent = "both"
    THEN add_parent(add_parent(rel, indi, "husb", relationship.value),
                    indi, "wife", relationship.value)
    ELSE add_parent(rel, indi, relationship.parent, relationship.value)

\* setup_parsed_sections: the relations of the individuals copied to the
\* 'rel' dict of family fam
copy_relations(rel, fam, relations, order) ==
    LET F[k \in 0..Len(order)] ==
          IF k = 0 THEN rel
          ELSE IF fam \in DOMAIN relations[order[k]]
               THEN setup_relationship(F[k-1], order[k],
                                       relations[order[k]][fam])
               ELSE F[k-1]
    IN  F[Len(order)]

\* is_birth_family( indi, family ), on the 'rel' dict of the family
is_birth_family(indi, rel) ==
    ~ ( /\ indi \in DOMAIN rel
        /\ \E parent \in {"husb", "wife"} :
              /\ parent \in DOMAIN rel[indi]
              /\ ~StartsWithBirt(rel[indi][parent]) )

AppendNew(list, x) == IF x \in Range(list) THEN list ELSE Append(list, x)

\* setup_birth_families, the first two loops: the all- and birth- lists
indi_birth_lists(indi) ==
    IF "famc" \in indi.keys
    THEN [ keys |-> indi.keys \cup {"all-famc", "birth-famc"},
           fams |-> indi.fams, famc |-> indi.famc,
           all_famc |-> indi.famc, birth_famc |-> <<>> ]
    ELSE [ keys |-> indi.keys, fams |-> indi.fams, famc |-> indi.famc,
           all_famc |-> <<>>, birth_famc |-> <<>> ]

fam_birth_lists(fam) ==
    [ keys |-> fam.keys \cup {"all-chil", "birth-chil"},
      husb |-> fam.husb, wife |-> fam.wife, chil |-> fam.chil,
      rel |-> fam.rel, all_chil |-> fam.chil, birth_chil |-> <<>> ]

\* the third loop, for one individual and one family of its famc list
birth_step(doc, indi, fam) ==
    IF fam \in DOMAIN doc.families
       /\ is_birth_family(indi, doc.families[fam].rel)
    THEN [ individuals |->
             [ doc.individuals EXCEPT ![indi].birth_famc = AppendNew(@, fam) ],
           families |->
             [ doc.families EXCEPT ![fam].birth_chil = AppendNew(@, indi) ] ]
    ELSE doc

birth_loop(doc, links) ==
    LET F[k \in 0..Len(links)] ==
          IF k = 0 THEN doc
          ELSE birth_step(F[k-1], links[k][1], links[k][2])
    IN  F[Len(links)]

\* "if only_birth:" the lists are replaced by the birth lists
birth_only(only_birth, doc) ==
    IF ~only_birth THEN doc
    ELSE [ individuals |->
             [ i \in DOMAIN doc.individuals |->
                 IF "famc" \in doc.individuals[i].keys
                 THEN [ doc.individuals[i] EXCEPT
                          !.famc = doc.individuals[i].birth_famc ]
                 ELSE doc.individuals[i] ],
           families |->
             [ f \in DOMAIN doc.families |->
                 [ doc.families[f] EXCEPT
                     !.chil = doc.families[f].birth_chil ] ] ]

setup_birth_families(only_birth, indis, fams, order) ==
    birth_only(only_birth,
        birth_loop([ individuals |->
                       [ i \in DOMAIN indis |-> indi_birth_lists(indis[i]) ],
                     families |->
                       [ f \in DOMAIN fams |-> fam_birth_lists(fams[f]) ] ],
                   LinksOf(indis, order, "famc")))

\* the records the input gives the second individual and the second
\* family: they answer the lines of the first family and first individual
SecondIndiLines(flines) ==
    IF \E k \in 1..Len(flines) : flines[k][2] = "i2"
    THEN << <<"famc", "f1", "">> >> ELSE <<>>

SecondFamLines(ilines) ==
    IF <<"famc", "f2", "">> \in Range(ilines)
    THEN << <<"chil", "i1", "", "">> >> ELSE <<>>

\* setup_parsed_sections: a parsed family with its 'rel' dict
BirthFamRecord(lines, fam, relations) ==
    [ keys |-> parse_family(lines).keys, husb |-> <<>>, wife |-> <<>>,
      chil |-> parse_family(lines).chil,
      rel |-> copy_relations(family_rel(lines), fam, relations,
                             BirthIndiOrder) ]

BirthFamilies(ilines, flines) ==
    ("f1" :> BirthFamRecord(flines, "f1",
               ("i1" :> indi_relations(ilines)) @@ ("i2" :> NoDocument)))
    @@ ("f2" :> BirthFamRecord(SecondFamLines(ilines), "f2",
               ("i1" :> indi_relations(ilines)) @@ ("i2" :> NoDocument)))

\* check_parsed_sections, then setup_birth_families
BirthChecked(only_birth, checked) ==
    setup_birth_families(only_birth, checked.individuals, checked.families,
                         BirthIndiOrder)

BirthDocument(only_birth, setup) ==
    BirthChecked(only_birth,
        check_parsed_sections_in(setup.individuals, setup.families,
            DefaultSettings, XrefLoopsOf(BirthIndiOrder, BirthFamOrder)))

BirthReturn(only_birth, ilines, flines, setup, doc) ==
    /\ individuals' = doc.individuals
    /\ families' = doc.families
    /\ run_settings' = [ DefaultSettings EXCEPT !.only_birth = only_birth ]
    /\ trace' = [ op |-> "read_file", only_birth |-> only_birth,
                  ilines |-> ilines, flines |-> flines, setup |-> setup ]

\* read_file( datafile, { 'only-birth': only_birth } )
BirthReadFile ==
    /\ pc = "start"
    /\ \E ilines \in SeqsUpTo(BirthIndiLineSet, MaxBirthLines),
          flines \in SeqsUpTo(BirthFamLineSet, MaxBirthLines),
          only_birth \in BOOLEAN :
       \E a \in parse_individual(IndiLinkLines(ilines)),
          b \in parse_individual(SecondIndiLines(flines)) :
          BirthReturn(only_birth, ilines, flines,
             [ individuals |-> ("i1" :> a) @@ ("i2" :> b),
               families |-> BirthFamilies(ilines, flines) ],
             BirthDocument(only_birth,
                [ individuals |-> ("i1" :> a) @@ ("i2" :> b),
                  families |-> BirthFamilies(ilines, flines) ]))
    /\ pc' = "returned"
    /\ UNCHANGED <<version, all_messages, sections, outf>>

BirthNext == BirthReadFile

SpecBirth == XrefInit /\ [][BirthNext]_vars

----------------------------------------------------------------------------
(* The back-pointers of the level-1 lines                                   *)

\* Bound: level-1 lines given to the individual and to the family
MaxPointerLines == 2

\* the lines of individual I1 (F2 is no record of the file) and of family
\* F1 (I2 is no record of the file)
PointerIndiLines ==
    { Line(1, "FAMS", "@F1@"), Line(1, "FAMS", "@F2@"),
      Line(1, "FAMC", "@F1@"), Line(1, "BIRT", "Y"), Line(1, "SEX", "F") }

PointerFamLines ==
    { Line(1, "HUSB", "@I1@"), Line(1, "WIFE", "@I2@"),
      Line(1, "CHIL", "@I1@"), Line(1, "CHIL", "@I2@"), Line(1, "MARR", "Y") }

PointerFiles ==
    { HeadRecord \o Indi1Start \o ilines \o << Line(0, "@F1@", "FAM") >>
        \o flines \o TrailerRecord :
        ilines \in SeqsUpTo(PointerIndiLines, MaxPointerLines),
        flines \in SeqsUpTo(PointerFamLines, MaxPointerLines) }

\* parse_individual, "out_data[test_tag] = list( set( out_data[test_tag] ) )"
\* for a list of more than one item: the lists it can leave
DedupList(list) == IF Len(list) > 1 THEN ListOfSet(list) ELSE {list}

DedupedEntries(entry) ==
    { [ keys |-> entry.keys, out_data |-> entry.out_data,
        values |-> entry.values, best_events |-> entry.best_events,
        privatized |-> entry.privatized, fams |-> a, famc |-> b ] :
        a \in DedupList(entry.fams), b \in DedupList(entry.famc) }

\* the parsed individuals after the duplicate removal of every record
RECURSIVE DedupedParsed(_, _, _)
DedupedParsed(parsed, order, k) ==
    IF k = 0 THEN {parsed}
    ELSE { [ x \in DOMAIN parsed |-> IF x = order[k] THEN e ELSE p[x] ] :
             p \in DedupedParsed(parsed, order, k - 1),
             e \in DedupedEntries(parsed[order[k]]) }

\* setup_parsed_individuals on the records read from a file
PointerIndividuals(st) ==
    ParseSection(IF st.status = "ok" THEN st.data[SECT_INDI] ELSE <<>>,
                 TRUE, FALSE)

\* the parsed individuals the duplicate removal can leave
DedupedOf(ip) == DedupedParsed(ip.parsed, ip.order, Len(ip.order))

DedupedSection(ip, deduped) ==
    [ parsed |-> deduped, section |-> ip.section, order |-> ip.order,
      messages |-> ip.messages, status |-> ip.status ]

\* setup_parsed_sections on the document read, then check_parsed_sections
PointerRead(inf, st, deduped) ==
    ReadFileReturnAs(
        ReadFileChecked(st,
            ParseSection(IF st.status = "ok" THEN st.data[SECT_FAM]
                         ELSE <<>>, FALSE, FALSE),
            DedupedSection(PointerIndividuals(st), deduped),
            DefaultSettings),
        DefaultSettings, [ op |-> "read_file", inf |-> inf ])

PointerRecords(inf) ==
    read_file_checks(read_in_data(inf, "", <<>>, DefaultSettings))

\* read_file( datafile ) with the default settings
PointerReadFile ==
    /\ pc = "start"
    /\ \E inf \in PointerFiles :
       \E deduped \in DedupedOf(PointerIndividuals(PointerRecords(inf))) :
         PointerRead(inf,
             read_file_checks(read_in_data(inf, version, all_messages,
                                           DefaultSettings)),
             deduped)
    /\ UNCHANGED outf

PointerNext == PointerReadFile

SpecPointers == XrefInit /\ [][PointerNext]_vars

----------------------------------------------------------------------------
(* C1: after read_file returns with exit-on-missing-individuals and         *)
(* exit-on-missing-families both false, every id in an individual's fams or *)
(* famc list is a key of the families map and every id in a family's husb,  *)
(* wife or chil list is a key of the individuals map.                       *)

AllRefsResolve ==
    /\ \A i \in DOMAIN individuals :
         Range(individuals[i].fams) \cup Range(individuals[i].famc)
            \subseteq DOMAIN families
    /\ \A f \in DOMAIN families :
         Range(families[f].husb) \cup Range(families[f].wife)
            \cup Range(families[f].chil) \subseteq DOMAIN individuals

C1_NoDanglingAfterRead ==
    ( /\ pc = "returned"
      /\ ~run_settings.exit_on_missing_individuals
      /\ ~run_settings.exit_on_missing_families ) => AllRefsResolve

(* C2: a second run of check_parsed_sections on a document read_file has    *)
(* validated removes no reference from any list and records no new warning. *)
C2_SecondCheckIsNoOp ==
    trace.op = "check_parsed_sections" =>
        trace.removed = 0 /\ trace.warnings = 0

----------------------------------------------------------------------------
(* C3: what output_original writes, stated on the input file alone          *)

\* the non-blank lines of the input, stripped
NonBlankLines(inf) ==
    SelectSeq([ k \in 1..Len(inf) |-> StripLine(inf[k]) ],
              LAMBDA l : l.txt # "")

\* the level-0 line that opens the record line k belongs to (0: none)
RecordStart(lines, k) ==
    IF \E j \in 1..k : lines[j].level = 0
    THEN CHOOSE j \in 1..k :
            lines[j].level = 0 /\ \A h \in (j+1)..k : lines[h].level # 0
    ELSE 0

\* line k belongs to an individual or family record whose opening line
\* occurred before
InDuplicate(lines, k) ==
    LET r == RecordStart(lines, k) IN
    /\ r # 0
    /\ SectionOf(lines[r]) \in {SECT_INDI, SECT_FAM}
    /\ \E j \in 1..(r-1) : lines[j].level = 0 /\ lines[j].txt = lines[r].txt

IsStored(lines, k) == lines[k].level \in 0..5 /\ ~InDuplicate(lines, k)

\* the place of a stored line's section in the output: the listed sections
\* in the order of SECTION_NAMES, then the unlisted ones in the order they
\* first occur, then the trailer
SectionRank(lines, k) ==
    LET sect == SectionOf(lines[RecordStart(lines, k)]) IN
    IF sect = SECT_TRLR THEN Len(SECTION_NAMES) + Len(lines) + 1
    ELSE IF sect \in Range(SECTION_NAMES)
    THEN CHOOSE r \in 1..Len(SECTION_NAMES) : SECTION_NAMES[r] = sect
    ELSE Len(SECTION_NAMES)
         + (CHOOSE j \in 1..Len(lines) :
               /\ lines[j].level = 0 /\ lines[j].txt = sect
               /\ \A h \in 1..(j-1) :
                     ~(lines[h].level = 0 /\ lines[h].txt = sect))

\* the stored lines, grouped by section rank, in input order within a rank
GroupedBySection(inf) ==
    LET lines == NonBlankLines(inf)
        top   == Len(SECTION_NAMES) + Len(lines) + 1
        pos   == [ k \in 1..Len(lines) |-> k ]
        G[r \in 0..top] ==
          IF r = 0 THEN <<>>
          ELSE G[r-1] \o
               SelectSeq(pos, LAMBDA k : IsStored(lines, k)
                                         /\ SectionRank(lines, k) = r)
    IN  [ k \in 1..Len(G[top]) |-> lines[G[top][k]] ]

\* the records of the input already come in the order of the output and no
\* line is left out
InOutputOrder(inf) ==
    LET lines == NonBlankLines(inf) IN
    /\ \A k \in 1..Len(lines) : IsStored(lines, k)
    /\ \A j, k \in 1..Len(lines) :
          j < k => SectionRank(lines, j) <= SectionRank(lines, k)

(* C3 as claimed: for every input read_file accepts, the lines written by   *)
(* output_original are the non-blank lines of the input, in the same order. *)
C3_RoundTripAnyOrder ==
    pc = "written" => outf = NonBlankLines(trace.inf)

(* C3 as amended: output_original writes the stripped lines read_in_data    *)
(* stored (levels 0 to 5, not under a repeated individual or family         *)
(* opening line), the records grouped by section in the order of            *)
(* SECTION_NAMES, unlisted sections next, the trailer last, each section in *)
(* input order; it reproduces the non-blank input lines when the input has  *)
(* that order already and none of its lines is left out.                    *)
C3_OriginalGroupedBySection ==
    pc = "written" =>
       /\ outf = GroupedBySection(trace.inf)
       /\ InOutputOrder(trace.inf) => outf = NonBlankLines(trace.inf)

\* an input of four records in output order is written back line for line
C3_Witness ==
    /\ pc = "written"
    /\ InOutputOrder(trace.inf)
    /\ Len(outf) >= 8
    /\ outf = NonBlankLines(trace.inf)

----------------------------------------------------------------------------
(* C10: every read_file call, a second or later one included, raises        *)
(* ValueError when it reaches the first level-0 line that is no header and  *)
(* the header of that very input declares no version or one other than      *)
(* 5.5.1, 5.5.5 or 7.0.*.                                                   *)
C10_VersionCheckedOnEveryCall ==
    ( /\ trace.op = "read_file"
      /\ trace.reached
      /\ ~VersionSupported(trace.declared) ) => pc = "raised"

----------------------------------------------------------------------------
(* C4: for a single-event tag with stored candidates, set_best_events       *)
(* records as best the lowest index among the candidates of maximal score,  *)
(* a candidate's score being its proof value (disproven 0, proven 2, 1 with *)
(* no or an unknown proof marker) times 10 when it carries a primary        *)
(* marker; it records no best index when the maximal score is not above the *)
(* disproven score.                                                         *)

ClaimedScore(c) ==
    LET proof == IF c.has_proof /\ Lower(c.proof) = "disproven" THEN 0
                 ELSE IF c.has_proof /\ Lower(c.proof) = "proven" THEN 2
                 ELSE 1
    IN  IF c.has_prim THEN proof * 10 ELSE proof

ClaimedBest(rec) ==
    LET n == Len(rec.events)
        top == CHOOSE v \in { ClaimedScore(rec.events[k]) : k \in 1..n } :
                  \A k \in 1..n : ClaimedScore(rec.events[k]) <= v
        first == CHOOSE k \in 1..n :
                    /\ ClaimedScore(rec.events[k]) = top
                    /\ \A j \in 1..(k-1) : ClaimedScore(rec.events[j]) # top
    IN  IF top > 0 THEN [ t \in {rec.tag} |-> first - 1 ]
        ELSE [ t \in {} |-> 0 ]

C4_BestIsFirstOfMaximalScore ==
    pc = "parsed" =>
       /\ \A i \in DOMAIN individuals :
             individuals[i].best_events = ClaimedBest(individuals[i])
       /\ \A f \in DOMAIN families :
             families[f].best_events = ClaimedBest(families[f])

----------------------------------------------------------------------------
(* The privatize flag and the privatized writer, stated on the document,    *)
(* the call parameters and the lines written                                *)

\* the date years_ago years before now, as the code counts it: 365 days a
\* year and years_ago modulo 4 days more
DaysBefore(now, years_ago) ==
    FromOrdinal(ToOrdinal(now) - (365 * years_ago + (years_ago % 4)))
DayLimit(now, years_ago) ==
    DaysBefore(now, years_ago).year * 10000
    + DaysBefore(now, years_ago).month * 100 + DaysBefore(now, years_ago).day

\* the same day and month years_ago calendar years before now
YearLimit(now, years_ago) ==
    (now.year - years_ago) * 10000 + now.month * 100 + now.day

DeathFamily == <<"deat", "buri", "crem">>
BirthFamily == <<"birt", "bapm", "chr">>

\* the events of an individual under the keys of a family of keys
EventsOf(entry, keys) ==
    UNION { Range(entry.out_data[key]) :
              key \in Range(keys) \cap DOMAIN entry.out_data }

DatedEvent(ev) == ev.has_date /\ ev.date.is_known

\* the one event of a key that is looked at: the best one of a key with a
\* best index, the first one otherwise
ExaminedEvent(entry, key) ==
    entry.out_data[key][(IF key \in DOMAIN entry.best_events
                         THEN entry.best_events[key] ELSE 0) + 1]

\* the position in keys of the first key whose examined event has a known
\* date, 0 when there is none
FirstDated(entry, keys) ==
    IF \A k \in 1..Len(keys) :
         keys[k] \notin DOMAIN entry.out_data
         \/ ~DatedEvent(ExaminedEvent(entry, keys[k]))
    THEN 0
    ELSE CHOOSE k \in 1..Len(keys) :
           /\ keys[k] \in DOMAIN entry.out_data
           /\ DatedEvent(ExaminedEvent(entry, keys[k]))
           /\ \A j \in 1..(k - 1) :
                keys[j] \notin DOMAIN entry.out_data
                \/ ~DatedEvent(ExaminedEvent(entry, keys[j]))

\* the latest bound of the date FirstDated finds
FirstDate(entry, keys) ==
    ExaminedEvent(entry, keys[FirstDated(entry, keys)]).date.max.value

(* C5 as claimed: set_privatize_flag gives an individual level OFF when a   *)
(* death, burial or cremation event of theirs has a known date whose latest *)
(* bound is at or before today minus years_since_death, level MIN when that *)
(* date is later, and level MAX when the individual has neither a           *)
(* death-family nor a birth-family event.                                   *)
C5_LevelFromAnyDeathFamilyDate ==
    pc = "flagged" =>
      \A i \in DOMAIN individuals :
        /\ \A ev \in EventsOf(individuals[i], DeathFamily) :
             DatedEvent(ev) /\ ev.date.max.value # NoValue =>
               individuals[i].privatized =
                 IF ev.date.max.value
                      <= YearLimit(trace.now, trace.years_since_death)
                 THEN PRIVATIZE_OFF ELSE PRIVATIZE_MIN
        /\ EventsOf(individuals[i], DeathFamily \o BirthFamily) = {} =>
             individuals[i].privatized = PRIVATIZE_MAX

(* C5 as amended: set_privatize_flag looks at one event per key, the best   *)
(* death event, the first burial and the first cremation, in this order,    *)
(* and at the first of them that has a known date: the level is OFF when    *)
(* the latest bound of that date is at or before the day 365 *              *)
(* years_since_death + years_since_death mod 4 days before today, and MIN   *)
(* when it is later; the level is MAX when the individual has neither a     *)
(* death-family nor a birth-family event.                                   *)
C5_LevelFromFirstExaminedDeathDate ==
    pc = "flagged" =>
      \A i \in DOMAIN individuals :
        /\ FirstDated(individuals[i], DeathFamily) > 0 =>
             individuals[i].privatized =
               IF FirstDate(individuals[i], DeathFamily)
                    <= DayLimit(trace.now, trace.years_since_death)
               THEN PRIVATIZE_OFF ELSE PRIVATIZE_MIN
        /\ EventsOf(individuals[i], DeathFamily \o BirthFamily) = {} =>
             individuals[i].privatized = PRIVATIZE_MAX

\* C5 happens: an individual is OFF by a burial dated between the two
\* limits, another individual's best death event is not the first one and
\* is the one that decides
C5_Witness ==
    /\ pc = "flagged"
    /\ \E i \in DOMAIN individuals :
         /\ FirstDated(individuals[i], DeathFamily) > 0
         /\ \/ /\ individuals[i].privatized = PRIVATIZE_OFF
               /\ FirstDate(individuals[i], DeathFamily)
                    > YearLimit(trace.now, trace.years_since_death)
            \/ /\ individuals[i].privatized = PRIVATIZE_MIN
               /\ \E ev \in EventsOf(individuals[i], DeathFamily) :
                    /\ DatedEvent(ev)
                    /\ ev.date.max.value
                         <= DayLimit(trace.now, trace.years_since_death)

\* an individual has a death-family event, one without a known date: every
\* death-family event of theirs is undated and flagged known
FlaggedOnly(entry) ==
    /\ EventsOf(entry, DeathFamily) # {}
    /\ \A ev \in EventsOf(entry, DeathFamily) : ~DatedEvent(ev) /\ ev.flagged

(* C6 as claimed: birth-family dates decide the privacy level only of an    *)
(* individual that has no death, burial or cremation event at all (OFF when *)
(* the birth, baptism or christening date is at or before today minus       *)
(* years_since_death + max_lifetime, else MAX); an individual whose         *)
(* death-family events are all undated but flagged known gets level MIN,    *)
(* whatever their birth date is.                                            *)
C6_BirthDatesOnlyWithoutDeathEvents ==
    pc = "flagged" =>
      \A i \in DOMAIN individuals :
        /\ EventsOf(individuals[i], DeathFamily) = {} =>
             individuals[i].privatized =
               IF /\ FirstDated(individuals[i], BirthFamily) > 0
                  /\ FirstDate(individuals[i], BirthFamily)
                       <= DayLimit(trace.now, trace.years_since_death
                                              + trace.max_lifetime)
               THEN PRIVATIZE_OFF ELSE PRIVATIZE_MAX
        /\ FlaggedOnly(individuals[i]) =>
             individuals[i].privatized = PRIVATIZE_MIN

(* C6 as amended: birth-family dates decide the privacy level of every      *)
(* individual for whom no death-family date was examined, with or without   *)
(* death-family events: the level is OFF when the first known date among    *)
(* the best birth, the first baptism and the first christening is at or     *)
(* before the limit of years_since_death + max_lifetime; otherwise it is    *)
(* MIN for an individual with a death-family event and MAX for one without. *)
C6_BirthDatesWithoutExaminedDeathDate ==
    pc = "flagged" =>
      \A i \in DOMAIN individuals :
        FirstDated(individuals[i], DeathFamily) = 0 =>
          individuals[i].privatized =
            IF /\ FirstDated(individuals[i], BirthFamily) > 0
               /\ FirstDate(individuals[i], BirthFamily)
                    <= DayLimit(trace.now, trace.years_since_death
                                           + trace.max_lifetime)
            THEN PRIVATIZE_OFF
            ELSE IF EventsOf(individuals[i], DeathFamily) # {}
            THEN PRIVATIZE_MIN ELSE PRIVATIZE_MAX

\* C6 happens: an individual whose only death-family event is flagged and
\* undated is OFF by an old birth date
C6_Witness ==
    /\ pc = "flagged"
    /\ \E i \in DOMAIN individuals :
         /\ FlaggedOnly(individuals[i])
         /\ FirstDated(individuals[i], BirthFamily) > 0
         /\ individuals[i].privatized = PRIVATIZE_OFF

\* the levels of the husband and of the wife of a family
PartnerLevels(fam) ==
    { individuals[i].privatized : i \in Range(fam.husb) \cup Range(fam.wife) }

(* C7: after set_privatize_flag, the level of every family equals the       *)
(* maximum of the levels of its husband and its wife, and is OFF for a      *)
(* family that has neither.                                                 *)
C7_FamilyLevelIsMaxOfPartners ==
    pc = "flagged" =>
      \A f \in DOMAIN families :
        /\ Range(families[f].husb) \cup Range(families[f].wife)
             \subseteq DOMAIN individuals
        /\ families[f].privatized =
             IF PRIVATIZE_MAX \in PartnerLevels(families[f])
             THEN PRIVATIZE_MAX
             ELSE IF PRIVATIZE_MIN \in PartnerLevels(families[f])
             THEN PRIVATIZE_MIN ELSE PRIVATIZE_OFF

\* C7 happens: a family whose wife has a higher level than its husband
C7_Witness ==
    /\ pc = "flagged"
    /\ \E f \in DOMAIN families :
         /\ Len(families[f].husb) = 1 /\ Len(families[f].wife) = 1
         /\ individuals[families[f].husb[1]].privatized
              < individuals[families[f].wife[1]].privatized
         /\ families[f].privatized
              = individuals[families[f].wife[1]].privatized

\* the input lines of a record, in file order
RecordLines(record) == output_sub_section(record)

\* the lines written for a record: from its opening line to the line before
\* the next level-0 line (no two records of a file open with the same line)
RecordSegment(out, first) ==
    LET a == CHOOSE k \in 1..Len(out) : out[k].txt = first.txt
        later == { k \in (a + 1)..Len(out) : out[k].level = 0 }
    IN  SubSeq(out, a,
               IF later = {} THEN Len(out)
               ELSE (CHOOSE k \in later : \A j \in later : k <= j) - 1)

Texts(ls) == [ k \in 1..Len(ls) |-> ls[k].txt ]

\* the position of the level-1 line a line is under (its own position for
\* a level-1 line), 0 for the opening line
Level1Above(ls, k) ==
    IF \A j \in 1..k : ls[j].level # 1 THEN 0
    ELSE CHOOSE j \in 1..k :
           ls[j].level = 1 /\ \A m \in (j + 1)..k : ls[m].level # 1

\* line k is under an event of the record
UnderEvent(ls, k, event_list) ==
    /\ Level1Above(ls, k) > 0
    /\ ls[Level1Above(ls, k)].tag \in event_list

\* line k is a DATE line below level 1 or is under one
InDate(ls, k) ==
    \E j \in 2..k :
      /\ ls[j].tag = "date" /\ ls[j].level > 1
      /\ \A m \in (j + 1)..k : ls[m].level > ls[j].level

\* what C8 says is written for line k of a record at level MAX
ClaimedAtMax(ls, k, event_list) ==
    IF ~UnderEvent(ls, k, event_list) THEN <<ls[k].txt>>
    ELSE IF ls[Level1Above(ls, k)].tag # "even"
    THEN IF ls[k].level = 1
         THEN << ToString(ls[k].level) \o " " \o ls[k].word \o " Y" >>
         ELSE <<>>
    ELSE IF InDate(ls, k) THEN <<>> ELSE <<ls[k].txt>>

ClaimedMaxRecord(ls, event_list) ==
    LET F[k \in 0..Len(ls)] ==
          IF k = 0 THEN <<>>
          ELSE F[k-1] \o ClaimedAtMax(ls, k, event_list)
    IN  F[Len(ls)]

\* the records of the individuals and of the families with their entry and
\* their event tags
LevelRecords ==
    { [ record |-> sections.data[SECT_INDI][k],
        entry |-> individuals[extract_id(sections.data[SECT_INDI][k].tag)],
        event_list |-> INDI_EVENT_TAGS ] :
        k \in 1..Len(sections.data[SECT_INDI]) }
    \cup
    { [ record |-> sections.data[SECT_FAM][k],
        entry |-> families[extract_id(sections.data[SECT_FAM][k].tag)],
        event_list |-> FAM_EVENT_TAGS ] :
        k \in 1..Len(sections.data[SECT_FAM]) }

(* C8: for an individual or family at level MAX, output_privatized writes   *)
(* each level-1 standard event (every event tag other than EVEN) as the     *)
(* single line '<level> <TAG> Y' with none of its sub-lines, writes an EVEN *)
(* event with all of its sub-lines except DATE lines and what is under      *)
(* them, and writes every non-event line of the record unchanged; so no     *)
(* DATE line of any event of that record reaches the output.                *)
C8_MaxRecordsKeepNoEventDate ==
    pc = "written" =>
      \A r \in LevelRecords :
        r.entry.privatized = PRIVATIZE_MAX =>
          /\ Texts(RecordSegment(outf, r.record.in))
               = ClaimedMaxRecord(RecordLines(r.record), r.event_list)
          /\ \A k \in 1..Len(RecordSegment(outf, r.record.in)) :
               RecordSegment(outf, r.record.in)[k].tag = "date" =>
                 ~UnderEvent(RecordSegment(outf, r.record.in), k,
                             r.event_list)

\* C8 happens: a record at level MAX with a dated standard event and a
\* custom event that has a DATE line and other lines has been written
C8_Witness ==
    /\ pc = "written"
    /\ \E r \in LevelRecords :
         /\ r.entry.privatized = PRIVATIZE_MAX
         /\ \E k \in 1..Len(RecordLines(r.record)) :
              /\ UnderEvent(RecordLines(r.record), k, r.event_list)
              /\ RecordLines(r.record)[Level1Above(RecordLines(r.record), k)].tag
                   = "even"
              /\ InDate(RecordLines(r.record), k)
         /\ \E k \in 1..Len(RecordLines(r.record)) :
              /\ UnderEvent(RecordLines(r.record), k, r.event_list)
              /\ RecordLines(r.record)[Level1Above(RecordLines(r.record), k)].tag
                   # "even"
              /\ RecordLines(r.record)[k].tag = "date"

\* the date texts of the input files that give a day, a month or both
FullDateTexts ==
    { "1 JAN 1890", "1 JAN 1990", "5 NOV 2006", "15 JUN 2020", "FEB 1890",
      "BET 1 JAN 1890 AND 15 JUN 2020" }

(* C9: for an individual or family at level MIN, output_privatized writes   *)
(* every DATE line found under an event of the record with only the         *)
(* modifier(s) and year(s) of the parsed date, and all other lines          *)
(* unchanged, so that no day, month or time of an event date of that record *)
(* appears anywhere in the output.                                          *)
C9_MinRecordsShowYearsOnly ==
    pc = "written" =>
      \A r \in LevelRecords :
        r.entry.privatized = PRIVATIZE_MIN =>
          /\ Len(RecordSegment(outf, r.record.in))
               = Len(RecordLines(r.record))
          /\ \A k \in 1..Len(RecordSegment(outf, r.record.in)) :
               IF /\ UnderEvent(RecordLines(r.record), k, r.event_list)
                  /\ RecordLines(r.record)[k].tag = "date"
               THEN RecordSegment(outf, r.record.in)[k].value
                      \notin FullDateTexts
               ELSE /\ RecordSegment(outf, r.record.in)[k].txt
                         = RecordLines(r.record)[k].txt
                    /\ ~ /\ UnderEvent(RecordLines(r.record), k,
                                       r.event_list)
                         /\ InDate(RecordLines(r.record), k)
                         /\ RecordLines(r.record)[k].tag = "time"

----------------------------------------------------------------------------
(* C11: the message list of the document returned by a read_file call holds *)
(* exactly the warnings emitted during that call, in the order emitted; a   *)
(* later read_file call neither adds earlier warnings to the new document   *)
(* nor changes the message list of a document returned before.              *)
C11_MessagesOfTheCallOnly ==
    \A k \in 1..Len(Documents) :
      /\ Documents[k].returned = Documents[k].emitted
      /\ DocumentMessages(Documents[k]) = Documents[k].returned

----------------------------------------------------------------------------
\* the input of the read_file call names a family that is no record of the
\* file in a FAMS or FAMC line, an individual that is no record of the file
\* in a HUSB, WIFE or CHIL line
NamesMissingFamily ==
    \E k \in 1..Len(trace.ilines) : trace.ilines[k][2] \notin FamRecords
NamesMissingIndividual ==
    \E k \in 1..Len(trace.flines) : trace.flines[k][2] \notin IndiRecords

----------------------------------------------------------------------------
\* a read_file call on a file of dated events, and the DateValue parsed for
\* the k-th date text of the file (the birth, then the death)
DatesCall == trace.op = "read_file" /\ "texts" \in DOMAIN trace
DateOf(k) ==
    individuals["i1"].out_data[IF k = 1 THEN "birt" ELSE "deat"][1].date

\* the date texts by what is in them: a day, a month or a year that is no
\* day, month or year even without its '-' and '.', or more than three
\* words; a month or a year that is one once '-' and '.' are taken out; the
\* name of a calendar that is not the Gregorian one
InvalidTokenTexts ==
    { "1 JAN -", "1 - 1990", "- JAN 1990", "32 JAN 1990", "1 FOO 1990",
      "1 JAN x", "1 JAN 1990 noon" }
StripRepairedTexts ==
    { "1 JAN. 1990", "1 JAN 19-90", "TO 1 JAN. 1990",
      "BET 1 JAN. 1890 AND 15 JUN 2020" }
OtherCalendarTexts == { "JULIAN 1 JAN 1990" }

\* the comparable value of a text of InvalidTokenTexts with 1 for each
\* token that is not valid
DefaultedValue(text) ==
    CASE text \in {"1 JAN -", "1 JAN x", "1 JAN 1990 noon"} -> 10101
      [] OTHER -> 19900101

(* C13: with exit-on-bad-date false, normalizing a date text that names no  *)
(* other calendar never raises: every day, month or year token that is not  *)
(* valid (also one that is empty once '-' and '.' are stripped, and a text  *)
(* of more than three tokens) is replaced by its default 1 and the          *)
(* DateValue is marked malformed.                                           *)
C13_InvalidTokensDefaultedNeverRaise ==
    ( /\ DatesCall
      /\ ~run_settings.exit_on_bad_date
      /\ \A k \in 1..Len(trace.texts) : trace.texts[k] \notin OtherCalendarTexts )
    => /\ pc = "returned"
       /\ \A k \in 1..Len(trace.texts) :
            trace.texts[k] \in InvalidTokenTexts
              => /\ DateOf(k).malformed
                 /\ DateOf(k).min.value = DefaultedValue(trace.texts[k])

(* C14, as stated: with exit-on-bad-date true, every date that would be     *)
(* marked malformed with the option false, a month or a year made valid by  *)
(* stripping '-' or '.' included, makes read_file raise.                    *)
C14_EveryMalformedDateRaises ==
    ( /\ DatesCall
      /\ run_settings.exit_on_bad_date
      /\ \E k \in 1..Len(trace.texts) :
           trace.texts[k] \in InvalidTokenTexts \cup StripRepairedTexts )
    => pc = "raised"

(* C14, amended: with exit-on-bad-date true read_file raises exactly when a *)
(* date has a token that is not valid even without its '-' and '.', more    *)
(* than three tokens, or another calendar; a month or a year made valid by  *)
(* stripping does not raise, and the date returned is the repaired one,     *)
(* marked malformed.                                                        *)
C14_OnlyUnrepairableDatesRaise ==
    (DatesCall /\ run_settings.exit_on_bad_date)
    => /\ pc = "raised" <=>
            \E k \in 1..Len(trace.texts) :
              trace.texts[k] \in InvalidTokenTexts \cup OtherCalendarTexts
       /\ pc = "returned" =>
            \A k \in 1..Len(trace.texts) :
              /\ DateOf(k).malformed <=> trace.texts[k] \in StripRepairedTexts
              /\ trace.texts[k] \in {"1 JAN. 1990", "1 JAN 19-90"}
                   => DateOf(k).min.value = 19900101

C14_Witness ==
    \/ /\ DatesCall /\ run_settings.exit_on_bad_date /\ pc = "raised"
       /\ trace.texts = <<"1 JAN 1990", "32 JAN 1990">>
    \/ /\ DatesCall /\ run_settings.exit_on_bad_date /\ pc = "returned"
       /\ trace.texts = <<"1 JAN. 1990", "1 JAN 19-90">>
       /\ DateOf(1).malformed /\ DateOf(2).malformed

(* C15: whenever a parsed date is marked malformed, at least one warning    *)
(* about that date is in the message list of the document returned.         *)
C15_MalformedDateHasWarning ==
    (DatesCall /\ pc = "returned")
    => \A k \in 1..Len(trace.texts) :
         DateOf(k).malformed
           => \E j \in 1..Len(all_messages) :
                all_messages[j] = <<"malformed date", trace.texts[k]>>

(* C16: for every known DateValue of date_to_structure that is not a range  *)
(* (a single date with or without a modifier, and the 'to X' form), min and *)
(* max have the same modifier, the same comparable value and the same year. *)
C16_SingleDateMinEqualsMax ==
    (DatesCall /\ pc = "returned")
    => \A k \in 1..Len(trace.texts) :
         (DateOf(k).is_known /\ ~DateOf(k).is_range)
           => /\ DateOf(k).min.modifier = DateOf(k).max.modifier
              /\ DateOf(k).min.value = DateOf(k).max.value
              /\ DateOf(k).min.year = DateOf(k).max.year

C16_Witness ==
    /\ DatesCall /\ pc = "returned"
    /\ trace.texts = <<"ABT 1950", "TO 1 JAN 1990">>
    /\ ~DateOf(1).is_range /\ DateOf(1).max.modifier = "abt"
    /\ DateOf(1).max.year = 1950
    /\ ~DateOf(2).is_range /\ DateOf(2).max.modifier = "to"
    /\ DateOf(2).max.value = 19900101

----------------------------------------------------------------------------
\* the level-0 lines of the input of the read_file call, and the input
\* with one header record, one trailer record and the trailer last
Level0Lines(tag) ==
    { k \in 1..Len(trace.inf) : trace.inf[k].level = 0
                                /\ (tag = "" \/ trace.inf[k].tag = tag) }
HeaderAndTrailerOnce ==
    /\ Cardinality(Level0Lines("head")) = 1
    /\ Cardinality(Level0Lines("trlr")) = 1
    /\ \A k \in Level0Lines("") : \E j \in Level0Lines("trlr") : k <= j

(* C17: read_file returns a document only if the input holds exactly one    *)
(* header record, exactly one trailer record, and the last level-0 line of  *)
(* the input is the trailer; in every other case it raises ValueError.      *)
C17_ReturnsOnlyWithHeaderAndTrailer ==
    (trace.op = "read_file" /\ "inf" \in DOMAIN trace)
    => /\ pc \in {"returned", "written"} => HeaderAndTrailerOnce
       /\ ~HeaderAndTrailerOnce => pc = "raised"

----------------------------------------------------------------------------
\* a find_individuals call for a value: the tag and sub-tag searched, the
\* operator, the individuals returned
FoundCall == trace.op = "find_individuals" /\ "search" \in DOMAIN trace
SearchedTag == SearchTagOf(trace.search.search_tag).tag
SearchedOp == OperatorOf(trace.search.operation)
SearchedDate ==
    \/ SearchTagOf(trace.search.search_tag).subtag = "date"
    \/ SearchedTag \in {"birt", "deat"}
       /\ trace.search.search_value \in DOMAIN DateNumber
Returned(x) == \E k \in 1..Len(trace.result) : trace.result[k] = x

\* a search of C18: a comparison on a name, a sex or the date of a birth
\* or a death
ComparedCall ==
    /\ FoundCall
    /\ SearchedOp \notin {"exist", "!exist"}
    /\ SearchedTag \in {"name", "sex"}
       \/ (SearchedTag \in {"birt", "deat"} /\ SearchedDate)

\* the candidates of an individual for the tag searched, and the k-th one
\* satisfying the comparison: its text for a name or a sex, its known date
\* for an event
CandidateCount(x) ==
    IF SearchedTag \notin individuals[x].keys THEN 0
    ELSE IF SearchedTag \in {"name", "sex"}
    THEN Len(individuals[x].values[SearchedTag])
    ELSE Len(individuals[x].out_data[SearchedTag])
Satisfies(x, k) ==
    IF SearchedTag \in {"name", "sex"}
    THEN compare(individuals[x].values[SearchedTag][k],
                 trace.search.search_value, SearchedOp)
    ELSE /\ individuals[x].out_data[SearchedTag][k].date.is_known
         /\ compare(individuals[x].out_data[SearchedTag][k].date.min.value,
                    DateNumber[trace.search.search_value], SearchedOp)
HasBest(x) == SearchedTag \in DOMAIN individuals[x].best_events
BestSatisfies(x) ==
    /\ CandidateCount(x) > 0
    /\ HasBest(x)
    /\ Satisfies(x, individuals[x].best_events[SearchedTag] + 1)
AnySatisfies(x) == \E k \in 1..CandidateCount(x) : Satisfies(x, k)

(* C18, as stated: with only_best=True find_individuals matches an         *)
(* individual on a multi-candidate tag exactly when the best-selected       *)
(* candidate for the tag satisfies the comparison; with only_best=False     *)
(* exactly when at least one candidate satisfies it.                        *)
C18_OnlyBestMatchesBestCandidate ==
    ComparedCall
    => \A x \in DOMAIN individuals :
         Returned(x) <=> IF trace.only_best THEN BestSatisfies(x)
                         ELSE AnySatisfies(x)

(* C18, amended: with only_best=True the best-selected candidate decides    *)
(* when a best index is recorded for the tag; when none is recorded (every  *)
(* candidate of the tag is disproven) all candidates are scanned as with    *)
(* only_best=False, where a match on any one qualifies.                     *)
C18_BestCandidateWhenOneIsRecorded ==
    ComparedCall
    => \A x \in DOMAIN individuals :
         Returned(x) <=> IF trace.only_best /\ HasBest(x)
                         THEN BestSatisfies(x)
                         ELSE AnySatisfies(x)

C18_Witness ==
    /\ ComparedCall /\ trace.only_best
    /\ SearchedTag = "birt" /\ trace.search.search_value = "18900101"
    /\ SearchedOp = "="
    /\ CandidateCount("i1") = 2 /\ HasBest("i1")
    /\ individuals["i1"].best_events["birt"] = 1
    /\ Satisfies("i1", 1) /\ ~Satisfies("i1", 2)
    /\ ~Returned("i1") /\ Returned("i2")

\* a search of C20: the existence of the date of an event
DateExistCall ==
    /\ FoundCall
    /\ SearchedOp \in {"exist", "!exist"}
    /\ SearchTagOf(trace.search.search_tag).subtag = "date"

\* the individual has an event of the tag (the best one when only_best
\* applies: it is set and a best index is recorded) whose date is known
HasKnownDate(x) ==
    /\ SearchedTag \in individuals[x].keys
    /\ IF trace.only_best /\ HasBest(x)
       THEN individuals[x].out_data[SearchedTag]
              [individuals[x].best_events[SearchedTag] + 1].date.is_known
       ELSE \E k \in 1..Len(individuals[x].out_data[SearchedTag]) :
              individuals[x].out_data[SearchedTag][k].date.is_known

----------------------------------------------------------------------------
\* the relation searches of find_individuals on an individual of the document
RelationCall ==
    /\ trace.op = "find_individuals"
    /\ SearchTagOf(trace.search.search_tag).tag \in RelationTags
    /\ trace.search.search_value \in DOMAIN individuals

AskedRelation == SearchTagOf(trace.search.search_tag).tag
AskedPerson   == trace.search.search_value

\* the husband and the wife a family of the document records
PartnersIn(f) == Range(families[f].husb) \cup Range(families[f].wife)
ChildrenIn(f) == Range(families[f].chil)

\* the relatives the document gives for individual x
RelativesOf(tag, x) ==
    CASE tag = "parentsof" ->
           UNION { PartnersIn(f) : f \in Range(individuals[x].famc) }
      [] tag = "childrenof" ->
           UNION { ChildrenIn(f) : f \in Range(individuals[x].fams) }
      [] tag = "partnersof" ->
           UNION { PartnersIn(f) : f \in Range(individuals[x].fams) } \ {x}
      [] tag = "siblingsof" ->
           UNION { ChildrenIn(f) : f \in Range(individuals[x].famc) } \ {x}
      [] tag = "step-siblingsof" ->
           UNION { ChildrenIn(g) :
                     g \in UNION { UNION { Range(individuals[q].fams) \ {f} :
                                             q \in PartnersIn(f) } :
                                   f \in Range(individuals[x].famc) } }

(* C19: for an individual x of the document, find_individuals returns for   *)
(* parentsof the husband and wife of every family in x.famc, for childrenof *)
(* the children of every family in x.fams, for partnersof the other partner *)
(* of every family in x.fams, for siblingsof the other children of x's famc *)
(* families and for step-siblingsof the children of the other families of   *)
(* x's parents, whatever operator and only_best value is passed: every such *)
(* call returns, and returns exactly those individuals.                     *)
C19_RelativesOfTheDocument ==
    RelationCall =>
       /\ pc = "found"
       /\ Range(trace.result) = RelativesOf(AskedRelation, AskedPerson)

\* the searches that return do return the relatives named by the document
C19_ReturnedRelatives ==
    (RelationCall /\ pc = "found") =>
       Range(trace.result) = RelativesOf(AskedRelation, AskedPerson)

----------------------------------------------------------------------------
\* the loops a document holds
DoublePartner ==
    \E f \in DOMAIN families :
       /\ families[f].husb # <<>>
       /\ families[f].wife # <<>>
       /\ families[f].husb[1] = families[f].wife[1]

TimesChild(x, f) ==
    Cardinality({ j \in 1..Len(families[f].chil) : families[f].chil[j] = x })

DoubleChild ==
    \E x \in DOMAIN individuals :
       \E f \in Range(individuals[x].famc) : TimesChild(x, f) > 1

\* the parents of x: child-family to parent links
ParentsOf(x) == UNION { PartnersIn(f) : f \in Range(individuals[x].famc) }

\* the individuals x reaches over one or more such links
AncestorsOf(x) ==
    LET R[k \in 0..Cardinality(DOMAIN individuals)] ==
          IF k = 0 THEN ParentsOf(x) \cap DOMAIN individuals
          ELSE R[k-1] \cup UNION { ParentsOf(y) \cap DOMAIN individuals :
                                     y \in R[k-1] }
    IN  R[Cardinality(DOMAIN individuals)]

SelfAncestor == \E x \in DOMAIN individuals : x \in AncestorsOf(x)

(* C21: detect_loops terminates on every document returned by read_file,    *)
(* cyclic ones included, and returns True exactly when some family has the  *)
(* same individual as husband and wife, or some individual occurs more than *)
(* once in the child list of one of its famc families, or some individual   *)
(* reaches itself over one or more child-family to parent links.            *)
C21_DetectLoopsFindsEveryLoop ==
    trace.op = "detect_loops" =>
       /\ trace.raised = ""
       /\ trace.result = (DoublePartner \/ DoubleChild \/ SelfAncestor)

\* a double partner that check_partners can see: the family is in the fams
\* list of an individual
DoublePartnerListed ==
    \E x \in DOMAIN individuals :
       \E f \in Range(individuals[x].fams) :
          /\ families[f].husb # <<>>
          /\ families[f].wife # <<>>
          /\ families[f].husb[1] = families[f].wife[1]

\* the calls that return give True exactly for the loops over the links the
\* individuals list
C21_ReturnedLoops ==
    (trace.op = "detect_loops" /\ trace.raised = "") =>
       trace.result = (DoublePartnerListed \/ DoubleChild \/ SelfAncestor)

----------------------------------------------------------------------------
(* C27: after read_file returns with the missing-reference options at their *)
(* defaults, every family that has a husb or a wife key holds exactly one   *)
(* individual id under it, never an empty list left by pruning and never    *)
(* two, so that detect_loops, which reads element 0 of the list, does not   *)
(* fail on a returned document.                                             *)
C27_PartnerKeysHoldOneId ==
    pc # "start" =>
       /\ \A f \in DOMAIN families :
            \A k \in {"husb", "wife"} \cap families[f].keys :
               Len(families[f][k]) = 1
       /\ trace.op = "detect_loops" => trace.raised = ""

\* the links of the document answer each other: a family is in the fams
\* list of exactly its partners and in the famc list of exactly its children
ReciprocalLinks ==
    \A x \in DOMAIN individuals : \A f \in DOMAIN families :
       /\ f \in Range(individuals[x].fams) <=> x \in PartnersIn(f)
       /\ f \in Range(individuals[x].famc) <=> x \in ChildrenIn(f)

PassesLoopDetection ==
    detect_loops(individuals, families, LoopIndiOrder)
      = [ result |-> FALSE, raised |-> "" ]

(* C30: report_all_descendant_count (get_indi_descendant_count for every    *)
(* individual) comes to its end on every document on which detect_loops     *)
(* returns False.                                                           *)
C30_CountEndsWhenNoLoopDetected ==
    (trace.op = "report_all_descendant_count" /\ PassesLoopDetection)
       => trace.raised = ""

\* on a document whose links answer each other the count does come to its
\* end when detect_loops returns False
C30_CountEndsOnReciprocalLinks ==
    (trace.op = "report_all_descendant_count" /\ PassesLoopDetection
     /\ ReciprocalLinks)
       => trace.raised = ""

----------------------------------------------------------------------------
NoRepeats(list) ==
    \A a, b \in 1..Len(list) : a # b => list[a] # list[b]

(* C28: for every individual x and every family graph read_file returns,    *)
(* the result of siblingsof(x), step-siblingsof(x) and partnersof(x) does   *)
(* not contain x itself and contains no individual more than once.          *)
C28_RelativesWithoutSelfOrRepeats ==
    (RelationCall /\ pc = "found"
     /\ AskedRelation \in {"siblingsof", "step-siblingsof", "partnersof"})
       => /\ AskedPerson \notin Range(trace.result)
          /\ NoRepeats(trace.result)

\* siblingsof and partnersof never return x itself
C28_SiblingsAndPartnersWithoutSelf ==
    (RelationCall /\ pc = "found"
     /\ AskedRelation \in {"siblingsof", "partnersof"})
       => AskedPerson \notin Range(trace.result)

----------------------------------------------------------------------------
\* a search of C24: an individual event tag given without a sub-tag
NoSubtagCall ==
    /\ FoundCall
    /\ SearchedTag \in INDI_EVENT_TAGS
    /\ SearchTagOf(trace.search.search_tag).subtag = ""

EightDigits == trace.search.search_value \in DOMAIN DateNumber
HasEvent(x) == SearchedTag \in individuals[x].keys

\* the date of the event of x (the best one when only_best applies, else
\* any) satisfies the comparison
DateSatisfies(x) ==
    IF trace.only_best /\ HasBest(x) THEN BestSatisfies(x)
    ELSE AnySatisfies(x)

----------------------------------------------------------------------------
\* the result of the search made, for either value of only_best
ResultWith(only_best) ==
    FindResult(individuals, sections.indi_order,
               SearchTagOf(trace.search.search_tag), trace.search, only_best)

(* C29: for the same tag, value and comparison operator (every operator     *)
(* except '!exist'), the ids find_individuals returns with only_best=True   *)
(* are among those it returns with only_best=False, and a value search      *)
(* never returns an id twice.                                               *)
C29_BestResultWithinFullResult ==
    FoundCall =>
       /\ trace.result = ResultWith(trace.only_best)
       /\ NoRepeats(trace.result)
       /\ SearchedOp # "!exist"
            => Range(ResultWith(TRUE)) \subseteq Range(ResultWith(FALSE))

C29_Witness ==
    /\ FoundCall /\ trace.only_best
    /\ SearchedTag = "birt" /\ trace.search.search_value = "18900101"
    /\ SearchedOp = "="
    /\ ~Returned("i1") /\ Returned("i2")
    /\ "i1" \in Range(ResultWith(FALSE))

----------------------------------------------------------------------------
\* the lines of the nodes of a list in pre-order, and the depth of each
RECURSIVE NodeDepths(_, _)
NodeDepths(section, d) ==
    IF section = <<>> THEN <<>>
    ELSE <<d>> \o NodeDepths(Head(section).sub, d + 1)
           \o NodeDepths(Tail(section), d)

\* the lines read so far that were stored under section sect, in the order
\* of the file
StoredOf(inf, sect) ==
    LET lines == NonBlankLines(inf)
        pos   == [ k \in 1..Len(lines) |-> k ]
        keep  == SelectSeq(pos, LAMBDA k :
                    /\ IsStored(lines, k)
                    /\ RecordStart(lines, k) # 0
                    /\ SectionOf(lines[RecordStart(lines, k)]) = sect)
    IN  [ k \in 1..Len(keep) |-> lines[keep[k]] ]

(* C22: while read_in_data consumes lines, each stored line of level L (1   *)
(* to 5) is the last child of the most recent stored line of level L-1 of   *)
(* the record open at that time, and the children of every node keep the    *)
(* order of the file: the nodes of every section, taken in pre-order, are   *)
(* the stored lines of the section in file order, each at the depth of its  *)
(* level.                                                                   *)
C22_NodesFollowLevels ==
    trace.op = "read_in_data" =>
       \A sect \in DOMAIN sections.data :
          /\ output_section(sections.data[sect]) = StoredOf(trace.inf, sect)
          /\ NodeDepths(sections.data[sect], 0)
               = [ k \in 1..Len(StoredOf(trace.inf, sect)) |->
                     StoredOf(trace.inf, sect)[k].level ]

\* a second level-1 line got its own child after the first had lines down
\* to level 5 under it
C22_Witness ==
    /\ trace.op = "read_in_data" /\ pc = "reading"
    /\ Len(sections.data[SECT_INDI]) = 1
    /\ Len(sections.data[SECT_INDI][1].sub) = 2
    /\ NodeDepths(sections.data[SECT_INDI], 0) = <<0, 1, 2, 3, 4, 5, 1, 2>>

----------------------------------------------------------------------------
\* the positions of the opening lines of individual and family records
\* that occurred before
RepeatedOpenings(inf) ==
    { k \in 1..Len(NonBlankLines(inf)) :
         NonBlankLines(inf)[k].level = 0 /\ InDuplicate(NonBlankLines(inf), k) }

\* the input without the repeated records and the lines under them
WithoutRepeats(inf) ==
    LET lines == NonBlankLines(inf)
        pos   == [ k \in 1..Len(lines) |-> k ]
        keep  == SelectSeq(pos, LAMBDA k : ~InDuplicate(lines, k))
    IN  [ k \in 1..Len(keep) |-> lines[keep[k]] ]

ReadOnce(inf) ==
    read_file_checks(read_in_data(WithoutRepeats(inf), "", <<>>,
                                  DefaultSettings))

IsDuplicateWarning(msg) == msg[1] = "duplicate"

IsOtherMessage(msg) == msg[1] # "duplicate"

\* the entries parsed from two lists of records are the same
SameParsed(section, other, is_indi) ==
    ParseSection(section, is_indi, FALSE).parsed
      = ParseSection(other, is_indi, FALSE).parsed

\* the state holds what the reading once gave, and n warnings more
RepeatsIgnored(once, n) ==
    /\ once.status = "ok"
    /\ sections.data = once.data
    /\ sections.unknown = once.unknown
    /\ SameParsed(sections.data[SECT_INDI], once.data[SECT_INDI], TRUE)
    /\ SameParsed(sections.data[SECT_FAM], once.data[SECT_FAM], FALSE)
    /\ SelectSeq(all_messages, IsOtherMessage) = once.messages
    /\ Len(SelectSeq(all_messages, IsDuplicateWarning)) = n

(* C23: when the opening line of an individual or family record occurs a    *)
(* second time, that record and the lines under it up to the next level-0   *)
(* line are not stored, one warning is recorded for it, and the first       *)
(* record keeps its sub-lines and its parsed entry: the document, the       *)
(* parsed individuals and families and the other messages are those of the  *)
(* input without the repeated records.                                      *)
C23_RepeatedRecordIgnored ==
    (pc = "returned" /\ trace.op = "read_file") =>
       RepeatsIgnored(ReadOnce(trace.inf), Cardinality(RepeatedOpenings(trace.inf)))

\* the record of i1 came twice, first with the name a and then with the
\* name b, and the trailer followed the repeat
C23_Witness ==
    /\ pc = "returned" /\ trace.op = "read_file"
    /\ Cardinality(RepeatedOpenings(trace.inf)) = 1
    /\ Len(sections.data[SECT_INDI]) = 1
    /\ sections.data[SECT_INDI][1].sub = <<line_values(IndiRecord1[2])>>
    /\ Len(sections.data[SECT_TRLR]) = 1
    /\ Len(SelectSeq(all_messages, IsDuplicateWarning)) = 1

----------------------------------------------------------------------------
\* read_file returned a document read with only-birth
OnlyBirthCall ==
    pc = "returned" /\ trace.op = "read_file" /\ trace.only_birth

\* the members of the all-chil list of family f whose relationship to the
\* family is birth, and the birth families among the all-famc list of i
BirthChildrenOf(f) ==
    { i \in Range(families[f].all_chil) :
         is_birth_family(i, families[f].rel) }

BirthFamiliesOf(i) ==
    { f \in Range(individuals[i].all_famc) :
         f \in DOMAIN families /\ is_birth_family(i, families[f].rel) }

\* the same input read without only-birth
WithoutOnlyBirth == BirthDocument(FALSE, trace.setup)

RestrictedToBirth(other) ==
    /\ \A f \in DOMAIN families :
          /\ Range(families[f].chil) = BirthChildrenOf(f)
          /\ families[f].chil = other.families[f].birth_chil
    /\ \A i \in DOMAIN individuals :
          "famc" \in individuals[i].keys =>
             /\ Range(individuals[i].famc) = BirthFamiliesOf(i)
             /\ individuals[i].famc = other.individuals[i].birth_famc

(* C25: with only-birth set, the chil list of every family holds exactly    *)
(* the members of its all-chil list whose relationship to the family is     *)
(* birth, the famc list of every individual holds exactly the birth         *)
(* families among its all-famc list, and the lists are the birth-chil and   *)
(* birth-famc lists of the same input read without only-birth.              *)
C25_OnlyBirthKeepsBirthMembers ==
    OnlyBirthCall => RestrictedToBirth(WithoutOnlyBirth)

\* every child line of a family is answered by a famc entry of the child
\* and every famc entry by a child line
ChildLinksAnswered ==
    \A i \in DOMAIN individuals, f \in DOMAIN families :
       (f \in Range(individuals[i].all_famc))
          <=> (i \in Range(families[f].all_chil))

\* on documents whose child links answer each other the lists are as
\* claimed
C25_OnAnsweredChildLinks ==
    (OnlyBirthCall /\ ChildLinksAnswered)
       => RestrictedToBirth(WithoutOnlyBirth)

\* a family names a child whose record has no famc entry for it
C25_UnansweredChild ==
    /\ OnlyBirthCall
    /\ families["f1"].all_chil = <<"i1">>
    /\ "famc" \notin individuals["i1"].keys
    /\ families["f1"].rel = NoDocument
    /\ families["f1"].chil = <<>>

----------------------------------------------------------------------------
\* the parsed record of a stored record, and the list it holds under a key
ParsedRecordOf(level0) ==
    IF extract_id(level0.tag) \in DOMAIN individuals
    THEN individuals[extract_id(level0.tag)]
    ELSE families[extract_id(level0.tag)]

ListUnder(entry, key) ==
    IF key \in {"fams", "famc", "husb", "wife", "chil"} THEN entry[key]
    ELSE IF key \in DOMAIN entry.out_data THEN entry.out_data[key]
    ELSE IF key \in DOMAIN entry.values THEN entry.values[key]
    ELSE <<>>

\* the level-1 lines of the individual and family records that carry a
\* back-pointer, each with the section it is in and its record
PointerLines ==
    { <<sect, r, k>> \in {SECT_INDI, SECT_FAM} \X (1..1) \X (1..(MaxPointerLines + 2)) :
         /\ r <= Len(sections.data[sect])
         /\ k <= Len(sections.data[sect][r].sub)
         /\ "parsed" \in DOMAIN sections.data[sect][r].sub[k] }

\* the back-pointer of the line finds an entry, and the entry is the fact
\* parsed from the line
PointsToItsFact(level0, level1, is_indi) ==
    /\ level1.parsed.index + 1
         <= Len(ListUnder(ParsedRecordOf(level0), level1.parsed.key))
    /\ ListUnder(ParsedRecordOf(level0), level1.parsed.key)
                [level1.parsed.index + 1]
         = Level1Value(level1, is_indi, FALSE)

LinePointsToItsFact(p) ==
    PointsToItsFact(sections.data[p[1]][p[2]],
                    [ t \in DOMAIN sections.data[p[1]][p[2]].sub[p[3]]
                            \ {"parsed"} |->
                        sections.data[p[1]][p[2]].sub[p[3]][t] ]
                    @@ [ parsed |-> sections.data[p[1]][p[2]].sub[p[3]].parsed ],
                    p[1] = SECT_INDI)

PointerCall == pc = "returned" /\ trace.op = "read_file"

(* C26: after read_file returns, every level-1 line that carries a          *)
(* back-pointer {key, index} has an entry at [key][index] in the parsed     *)
(* record of its individual or family, and that entry is the fact parsed    *)
(* from that line, for event lines and for fams, famc, husb, wife and chil  *)
(* lines after duplicate removal and reference pruning.                     *)
C26_BackPointersFindTheirFact ==
    PointerCall => \A p \in PointerLines : LinePointsToItsFact(p)

\* the lines that name no other record: events, names and sex lines
C26_EventPointersFindTheirFact ==
    PointerCall =>
       \A p \in PointerLines :
          sections.data[p[1]][p[2]].sub[p[3]].parsed.key
              \notin {"fams", "famc", "husb", "wife", "chil"}
            => LinePointsToItsFact(p)

\* the reference of the first FAMS line was pruned: the line points at the
\* family of the second line, and the second line at nothing
C26_PrunedReference ==
    /\ PointerCall
    /\ Len(sections.data[SECT_INDI][1].sub) = 3
    /\ sections.data[SECT_INDI][1].sub[2].value = "@F2@"
    /\ sections.data[SECT_INDI][1].sub[3].value = "@F1@"
    /\ sections.data[SECT_INDI][1].sub[3].parsed = [ key |-> "fams", index |-> 1 ]
    /\ individuals["i1"].fams = <<"f1">>
====
